---- MODULE Spec2Model ----
(***************************************************************************)
(* A model of labelord: the label reconciliation (RunModes, RunProcessor,  *)
(* DryRunProcessor of src/labelord.py) and the webhook relay with its echo *)
(* suppression (LabelordChange, LabelordWeb of src/labelord/web.py).       *)
(*                                                                         *)
(* Python dicts keep insertion order, and the order of a plan decides the  *)
(* order of the remote calls, so a dict is modelled as a sequence of       *)
(* entries with distinct keys.                                             *)
(***************************************************************************)
EXTENDS Integers, Sequences, FiniteSets, TLC

(***************************************************************************)
(* Bounds of the model                                                     *)
(***************************************************************************)
\* longest label dict (current labels, desired specification) of SpecDiff
MaxLabels == 2
\* longest desired specification of a run
MaxSpecs == 2
\* most labels a repository holds when the first run starts
MaxRemote == 2
\* longest list of repositories of a run
MaxSlugs == 2
\* most calls the service fails although it could accept them
MaxFailures == 1
\* most requests the relay receives
MaxNotifs == 3
\* how often the clock is advanced
MaxAdvances == 2

(***************************************************************************)
(* Label names and colors                                                  *)
(***************************************************************************)
Names == {"bug", "Bug", "feature"}
Colors == {"ee0701", "00ff00"}

\* str.lower() on the names of the model
Lower(n) == IF n = "Bug" THEN "bug" ELSE n

\* the sequences over S of length at most n
SeqsUpTo(S, n) == UNION {[1..k -> S] : k \in 0..n}

\* a label dict {name: color}: entries with pairwise distinct (exact) names
IsDict(d) == \A i, j \in 1..Len(d) : d[i].name = d[j].name => i = j
LabelDicts(n) == {d \in SeqsUpTo([name : Names, color : Colors], n) : IsDict(d)}

\* a color that is not six hexadecimal digits, and the label dicts a
\* specification can hold: a color in it is any string
WeirdColor == "aaaxxx"
SpecDicts(n) ==
    {d \in SeqsUpTo([name : Names, color : Colors \cup {WeirdColor}], n) : IsDict(d)}

HasName(labels, n) == \E i \in 1..Len(labels) : labels[i].name = n
ColorOf(labels, n) == labels[CHOOSE i \in 1..Len(labels) : labels[i].name = n].color

(***************************************************************************)
(* Plan dicts {key: (name, color)}                                         *)
(***************************************************************************)
HasKey(d, k) == \E i \in 1..Len(d) : d[i].key = k
Get(d, k) == d[CHOOSE i \in 1..Len(d) : d[i].key = k]
Keys(d) == {d[i].key : i \in 1..Len(d)}

\* d[k] = (n, c): a new key is appended, an existing key keeps its place
DictSet(d, k, n, c) ==
    LET e == [key |-> k, name |-> n, color |-> c]
    IN  IF HasKey(d, k)
        THEN [i \in 1..Len(d) |-> IF d[i].key = k THEN e ELSE d[i]]
        ELSE Append(d, e)

(***************************************************************************)
(* RunModes                                                                *)
(***************************************************************************)
RECURSIVE make_labels_dict_from(_, _, _)
make_labels_dict_from(labels_spec, i, acc) ==
    IF i > Len(labels_spec) THEN acc
    ELSE make_labels_dict_from(labels_spec, i + 1,
             DictSet(acc, Lower(labels_spec[i].name),
                     labels_spec[i].name, labels_spec[i].color))

\* {k.lower(): (k, v) for k, v in labels_spec.items()}
make_labels_dict(labels_spec) == make_labels_dict_from(labels_spec, 1, <<>>)

EmptyPlan == [create |-> <<>>, update |-> <<>>, delete |-> <<>>]

\* update_step without its last branch: a changed color is not noticed
update_step_no_recolor(labels, xlabels, name, color, acc) ==
    IF ~HasKey(xlabels, Lower(name))
    THEN [acc EXCEPT !.create = DictSet(@, name, name, color)]
    ELSE IF ~HasName(labels, name)
    THEN [acc EXCEPT !.update =
              DictSet(@, Get(xlabels, Lower(name)).name, name, color)]
    ELSE acc

\* update_step comparing the colors wrongly: a present label is always updated
update_step_always_recolor(labels, xlabels, name, color, acc) ==
    IF ~HasKey(xlabels, Lower(name))
    THEN [acc EXCEPT !.create = DictSet(@, name, name, color)]
    ELSE IF ~HasName(labels, name)
    THEN [acc EXCEPT !.update =
              DictSet(@, Get(xlabels, Lower(name)).name, name, color)]
    ELSE [acc EXCEPT !.update = DictSet(@, name, name, color)]

\* update_step filing a renamed label under its new name
update_step_new_key(labels, xlabels, name, color, acc) ==
    IF ~HasKey(xlabels, Lower(name))
    THEN [acc EXCEPT !.create = DictSet(@, name, name, color)]
    ELSE IF ~HasName(labels, name)
    THEN [acc EXCEPT !.update = DictSet(@, name, name, color)]
    ELSE IF ColorOf(labels, name) # color
    THEN [acc EXCEPT !.update = DictSet(@, name, name, color)]
    ELSE acc

\* one turn of update_mode's loop, for the entry (name, color) of labels_specs
update_step(labels, xlabels, name, color, acc) ==
    IF ~HasKey(xlabels, Lower(name))
    THEN [acc EXCEPT !.create = DictSet(@, name, name, color)]
    ELSE IF ~HasName(labels, name)
    THEN [acc EXCEPT !.update =
              DictSet(@, Get(xlabels, Lower(name)).name, name, color)]
    ELSE IF ColorOf(labels, name) # color
    THEN [acc EXCEPT !.update = DictSet(@, name, name, color)]
    ELSE acc

RECURSIVE update_loop(_, _, _, _, _)
update_loop(labels, xlabels, labels_specs, i, acc) ==
    IF i > Len(labels_specs) THEN acc
    ELSE update_loop(labels, xlabels, labels_specs, i + 1,
             update_step(labels, xlabels, labels_specs[i].name,
                         labels_specs[i].color, acc))

update_mode(labels, labels_specs) ==
    update_loop(labels, make_labels_dict(labels), labels_specs, 1, EmptyPlan)

\* {n: (n, c) for n, c in labels.items() if n not in labels_specs}
RECURSIVE delete_dict(_, _, _, _)
delete_dict(labels, labels_specs, i, acc) ==
    IF i > Len(labels) THEN acc
    ELSE delete_dict(labels, labels_specs, i + 1,
             IF ~HasName(labels_specs, labels[i].name)
             THEN DictSet(acc, labels[i].name, labels[i].name, labels[i].color)
             ELSE acc)

\* replace_mode deleting by case-insensitive absence instead of exact absence
replace_mode_ci_delete(labels, labels_specs) ==
    [update_mode(labels, labels_specs) EXCEPT
        !.delete = SelectSeq(
            [i \in 1..Len(labels) |->
                [key |-> labels[i].name, name |-> labels[i].name,
                 color |-> labels[i].color]],
            LAMBDA e : ~HasKey(make_labels_dict(labels_specs), Lower(e.key)))]

replace_mode(labels, labels_specs) ==
    [update_mode(labels, labels_specs) EXCEPT
        !.delete = delete_dict(labels, labels_specs, 1, <<>>)]

\* RunProcessor.MODES
\* MODES with both names bound to replace_mode
MODES_replace_only(mode, labels, labels_specs) ==
    replace_mode(labels, labels_specs)

MODES(mode, labels, labels_specs) ==
    IF mode = "replace" THEN replace_mode(labels, labels_specs)
    ELSE update_mode(labels, labels_specs)

(***************************************************************************)
(* SpecDiff: the diff as a pure function of its inputs                     *)
(***************************************************************************)
VARIABLES d_labels, d_specs, d_mode, d_plan

diffvars == <<d_labels, d_specs, d_mode, d_plan>>

DiffInit ==
    /\ d_labels \in LabelDicts(MaxLabels)
    /\ d_specs \in LabelDicts(MaxLabels)
    /\ d_mode = "none"
    /\ d_plan = EmptyPlan

DiffUpdate ==
    /\ d_mode = "none"
    /\ d_mode' = "update"
    /\ d_plan' = MODES("update", d_labels, d_specs)
    /\ UNCHANGED <<d_labels, d_specs>>

DiffReplace ==
    /\ d_mode = "none"
    /\ d_mode' = "replace"
    /\ d_plan' = MODES("replace", d_labels, d_specs)
    /\ UNCHANGED <<d_labels, d_specs>>


\* the diff is not in use
DiffIdle ==
    /\ d_labels = <<>> /\ d_specs = <<>> /\ d_mode = "none" /\ d_plan = EmptyPlan

(***************************************************************************)
(* The remote service (GitHub) behind the API client: the labels of each   *)
(* repository, an insertion-ordered dict name -> color whose names are     *)
(* distinct ignoring case; a label is looked up ignoring case.             *)
(***************************************************************************)
RunRepos == {"A", "B"}

CiHas(labels, n) == \E i \in 1..Len(labels) : Lower(labels[i].name) = Lower(n)
CiIndex(labels, n) == CHOOSE i \in 1..Len(labels) : Lower(labels[i].name) = Lower(n)

\* the service takes a color of six hexadecimal digits and answers 422
\* 'Validation Failed' to any other (test_update_label_with_weird_color);
\* of the colors of the model these are the ones in Colors
ValidColor(color) == color \in Colors

\* whether the service accepts the call op on a repository holding labels:
\* 201 for a create, 200 for an update, 204 for a delete
Accepts(op, labels) ==
    CASE op.kind = "create" -> ValidColor(op.color) /\ ~CiHas(labels, op.name)
      [] op.kind = "update" ->
            /\ ValidColor(op.color)
            /\ CiHas(labels, op.key)
            /\ \A i \in 1..Len(labels) :
                   Lower(labels[i].name) = Lower(op.name) => i = CiIndex(labels, op.key)
      [] op.kind = "delete" -> CiHas(labels, op.name)

\* the labels after the accepted call op
Applied(op, labels) ==
    CASE op.kind = "create" -> Append(labels, [name |-> op.name, color |-> op.color])
      [] op.kind = "update" ->
            [labels EXCEPT ![CiIndex(labels, op.key)] =
                               [name |-> op.name, color |-> op.color]]
      [] op.kind = "delete" ->
            SelectSeq(labels, LAMBDA l : Lower(l.name) # Lower(op.name))

(***************************************************************************)
(* RunProcessor / DryRunProcessor                                          *)
(***************************************************************************)
DEFAULT_SUCCESS_RETURN == 0
DEFAULT_ERROR_RETURN == 10

\* the calls _process makes for one dict of changes, in the dict's order
OpsOf(kind, changes) ==
    [i \in 1..Len(changes) |->
        [kind |-> kind, key |-> changes[i].key,
         name |-> changes[i].name, color |-> changes[i].color]]

\* _run_one with the three _process calls in another order
PlanOps_update_first(p) ==
    OpsOf("update", p.update) \o OpsOf("create", p.create) \o OpsOf("delete", p.delete)

\* _run_one: create, then update, then delete
PlanOps(p) ==
    OpsOf("create", p.create) \o OpsOf("update", p.update) \o OpsOf("delete", p.delete)

VARIABLES
    remote,          \* the service: repository -> labels
    slugs,           \* run's argument: the repositories, in the caller's order
    labels_specs,    \* run's argument: the desired specification
    mode,            \* run's argument: "update" or "replace"
    dry_run,         \* whether the processor is a DryRunProcessor
    pc,              \* "idle", "fetch" (at _run_one), "apply" (in _process), "done"
    idx,             \* position in slugs of the repository being processed
    plan,            \* the plan computed for the repository being processed
    todo,            \* the operations of the plan not processed yet
    printer_repos,   \* BasePrinter.repos
    printer_errors,  \* BasePrinter.errors
    events,          \* the events given to the printer, in order
    calls,           \* the calls made on the API client, in order
    planned,         \* history: every operation planned in this run, in order
    ret,             \* run's return value
    run,             \* "none", then the "first" run, then the "second" one, or
                     \* the "real" one after a dry run
    failures,        \* the number of calls the service failed although acceptable
    first_calls,     \* history: the calls of the first run, once it is over
    first_events     \* history: the events of the first run, once it is over

runvars == <<remote, slugs, labels_specs, mode, dry_run, pc, idx, plan, todo,
             printer_repos, printer_errors, events, calls, planned, ret, run,
             failures, first_calls, first_events>>

\* the service's labels when the first run starts: names distinct ignoring
\* case, all of one color (colors are only compared for equality, and the
\* desired specification ranges over both colors)
RemoteDicts == {d \in LabelDicts(MaxRemote) :
                   /\ \A i, j \in 1..Len(d) : Lower(d[i].name) = Lower(d[j].name) => i = j
                   /\ \A i \in 1..Len(d) : d[i].color = "ee0701"}

RunInit ==
    /\ \E d \in RemoteDicts : remote = [r \in RunRepos |-> d]
    /\ slugs = <<>> /\ labels_specs = <<>> /\ mode = "update" /\ dry_run = FALSE
    /\ pc = "idle" /\ idx = 1 /\ plan = EmptyPlan /\ todo = <<>>
    /\ printer_repos = {} /\ printer_errors = 0
    /\ events = <<>> /\ calls = <<>> /\ planned = <<>>
    /\ ret = DEFAULT_SUCCESS_RETURN /\ run = "none" /\ failures = 0 /\ first_calls = <<>>
    /\ first_events = <<>>

\* a new processor with a new printer starts run(slugs, labels_specs, mode):
\* the model begins where RunProcessor.run is called with the repositories and
\* the specification as its arguments, however the caller came by them
Started ==
    /\ pc' = "fetch" /\ idx' = 1 /\ plan' = EmptyPlan /\ todo' = <<>>
    /\ printer_repos' = {} /\ printer_errors' = 0
    /\ events' = <<>> /\ calls' = <<>> /\ planned' = <<>>
    /\ UNCHANGED <<remote, ret, failures>>

\* RunProcessor.run or DryRunProcessor.run is called with a list of
\* repositories (any list, a repository can be in it twice), a specification
\* and a policy
RunStart ==
    /\ pc = "idle" /\ run = "none"
    /\ run' = "first"
    /\ slugs' \in SeqsUpTo(RunRepos, MaxSlugs)
    /\ labels_specs' \in SpecDicts(MaxSpecs)
    /\ mode' \in {"update", "replace"}
    /\ dry_run' \in BOOLEAN
    /\ Started
    /\ UNCHANGED <<first_calls, first_events>>

\* RunProcessor.run is called once more with the same arguments on a new
\* processor, after a real run none of whose calls failed (after a dry run
\* nothing has changed, and after a failure the second run is a first run on
\* the labels the failure left)
RunAgain ==
    /\ pc = "done" /\ run = "first" /\ ~dry_run
    /\ \A i \in 1..Len(calls) : calls[i].ok
    /\ run' = "second"
    /\ first_calls' = calls /\ first_events' = events
    /\ Started
    /\ UNCHANGED <<slugs, labels_specs, mode, dry_run>>

\* after DryRunProcessor.run, RunProcessor.run is called with the same
\* arguments, on the labels the dry run saw
RunForReal ==
    /\ pc = "done" /\ run = "first" /\ dry_run
    /\ run' = "real" /\ dry_run' = FALSE
    /\ first_calls' = calls /\ first_events' = events
    /\ Started
    /\ UNCHANGED <<slugs, labels_specs, mode>>

ListCall(ok) ==
    [kind |-> "list", repo |-> slugs[idx], key |-> "", name |-> "", color |-> "",
     ok |-> ok, at |-> idx]

OpCall(op, ok) ==
    [kind |-> op.kind, repo |-> slugs[idx], key |-> op.key, name |-> op.name,
     color |-> op.color, ok |-> ok, at |-> idx]

Event(event, result, name, color) ==
    [event |-> event, result |-> result, repo |-> slugs[idx],
     name |-> name, color |-> color, at |-> idx]

EventOf(kind) ==
    CASE kind = "create" -> "ADD" [] kind = "update" -> "UPD" [] kind = "delete" -> "DEL"

\* BasePrinter.event counting the errors of label operations only
PrinterEvent_ops_only(e) ==
    /\ events' = Append(events, e)
    /\ printer_errors' = IF e.result = "ERR" /\ e.event # "LBL"
                         THEN printer_errors + 1 ELSE printer_errors

\* BasePrinter.event
PrinterEvent(e) ==
    /\ events' = Append(events, e)
    /\ printer_errors' = IF e.result = "ERR" THEN printer_errors + 1 ELSE printer_errors

\* the position after the operations ops are left to process
After(ops) ==
    /\ todo' = ops
    /\ IF ops = <<>> THEN pc' = "fetch" /\ idx' = idx + 1
                     ELSE pc' = "apply" /\ idx' = idx

\* _run_one, list_labels returns: the plan is computed
RunOneFetched ==
    /\ pc = "fetch" /\ idx <= Len(slugs)
    /\ printer_repos' = printer_repos \cup {slugs[idx]}
    /\ calls' = Append(calls, ListCall(TRUE))
    /\ plan' = MODES(mode, remote[slugs[idx]], labels_specs)
    /\ planned' = planned \o [i \in 1..Len(PlanOps(plan')) |->
                                 [op |-> PlanOps(plan')[i], at |-> idx]]
    /\ After(PlanOps(plan'))
    /\ UNCHANGED <<remote, slugs, labels_specs, mode, dry_run, printer_errors,
                   events, ret, run, failures, first_calls, first_events>>

\* RunOneFetchFailed letting the error end the run
RunOneFetchFailed_abort ==
    /\ pc = "fetch" /\ idx <= Len(slugs)
    /\ failures < MaxFailures
    /\ failures' = failures + 1
    /\ printer_repos' = printer_repos \cup {slugs[idx]}
    /\ calls' = Append(calls, ListCall(FALSE))
    /\ PrinterEvent(Event("LBL", "ERR", "", ""))
    /\ pc' = "fetch" /\ idx' = Len(slugs) + 1
    /\ UNCHANGED <<remote, slugs, labels_specs, mode, dry_run, plan, todo,
                   planned, ret, run, first_calls, first_events>>

\* RunOneFetchFailed not counting the repository among those touched
RunOneFetchFailed_uncounted ==
    /\ pc = "fetch" /\ idx <= Len(slugs)
    /\ failures < MaxFailures
    /\ failures' = failures + 1
    /\ calls' = Append(calls, ListCall(FALSE))
    /\ PrinterEvent(Event("LBL", "ERR", "", ""))
    /\ pc' = "fetch" /\ idx' = idx + 1
    /\ UNCHANGED <<remote, slugs, labels_specs, mode, dry_run, plan, todo,
                   printer_repos, planned, ret, run, first_calls, first_events>>

\* _run_one, list_labels raises GitHubError: an error event, the next repository
RunOneFetchFailed ==
    /\ pc = "fetch" /\ idx <= Len(slugs)
    /\ failures < MaxFailures
    /\ failures' = failures + 1
    /\ printer_repos' = printer_repos \cup {slugs[idx]}
    /\ calls' = Append(calls, ListCall(FALSE))
    /\ PrinterEvent(Event("LBL", "ERR", "", ""))
    /\ pc' = "fetch" /\ idx' = idx + 1
    /\ UNCHANGED <<remote, slugs, labels_specs, mode, dry_run, plan, todo,
                   planned, ret, run, first_calls, first_events>>

\* _process_generic, the call returns
ProcessOk ==
    /\ pc = "apply" /\ ~dry_run
    /\ Accepts(Head(todo), remote[slugs[idx]])
    /\ remote' = [remote EXCEPT ![slugs[idx]] = Applied(Head(todo), @)]
    /\ calls' = Append(calls, OpCall(Head(todo), TRUE))
    /\ PrinterEvent(Event(EventOf(Head(todo).kind), "SUC",
                          Head(todo).name, Head(todo).color))
    /\ After(Tail(todo))
    /\ UNCHANGED <<slugs, labels_specs, mode, dry_run, plan, printer_repos,
                   planned, ret, run, failures, first_calls, first_events>>

\* ProcessErr giving up the rest of the repository's plan
ProcessErr_abort ==
    /\ pc = "apply" /\ ~dry_run
    /\ \/ ~Accepts(Head(todo), remote[slugs[idx]]) /\ failures' = failures
       \/ failures < MaxFailures /\ failures' = failures + 1
    /\ calls' = Append(calls, OpCall(Head(todo), FALSE))
    /\ PrinterEvent(Event(EventOf(Head(todo).kind), "ERR",
                          Head(todo).name, Head(todo).color))
    /\ After(<<>>)
    /\ UNCHANGED <<remote, slugs, labels_specs, mode, dry_run, plan,
                   printer_repos, planned, ret, run, first_calls, first_events>>

\* ProcessErr trying again an operation that failed although acceptable
ProcessErr_retry ==
    /\ pc = "apply" /\ ~dry_run
    /\ \/ ~Accepts(Head(todo), remote[slugs[idx]]) /\ failures' = failures
          /\ After(Tail(todo))
       \/ failures < MaxFailures /\ failures' = failures + 1
          /\ After(todo)
    /\ calls' = Append(calls, OpCall(Head(todo), FALSE))
    /\ PrinterEvent(Event(EventOf(Head(todo).kind), "ERR",
                          Head(todo).name, Head(todo).color))
    /\ UNCHANGED <<remote, slugs, labels_specs, mode, dry_run, plan,
                   printer_repos, planned, ret, run, first_calls, first_events>>

\* _process_generic, the call raises GitHubError: refused by the service, or
\* failed although acceptable
ProcessErr ==
    /\ pc = "apply" /\ ~dry_run
    /\ \/ ~Accepts(Head(todo), remote[slugs[idx]]) /\ failures' = failures
       \/ failures < MaxFailures /\ failures' = failures + 1
    /\ calls' = Append(calls, OpCall(Head(todo), FALSE))
    /\ PrinterEvent(Event(EventOf(Head(todo).kind), "ERR",
                          Head(todo).name, Head(todo).color))
    /\ After(Tail(todo))
    /\ UNCHANGED <<remote, slugs, labels_specs, mode, dry_run, plan,
                   printer_repos, planned, ret, run, first_calls, first_events>>

\* ProcessDry calling the API client like _process_generic
ProcessDry_calling ==
    /\ pc = "apply" /\ dry_run
    /\ calls' = Append(calls, OpCall(Head(todo), TRUE))
    /\ PrinterEvent(Event(EventOf(Head(todo).kind), "DRY",
                          Head(todo).name, Head(todo).color))
    /\ After(Tail(todo))
    /\ UNCHANGED <<remote, slugs, labels_specs, mode, dry_run, plan,
                   printer_repos, planned, ret, run, failures, first_calls, first_events>>

\* ProcessDry in which an operation may fail and be reported as an error
ProcessDry_failing ==
    /\ pc = "apply" /\ dry_run
    /\ \/ /\ PrinterEvent(Event(EventOf(Head(todo).kind), "DRY",
                                Head(todo).name, Head(todo).color))
          /\ UNCHANGED failures
       \/ /\ failures < MaxFailures /\ failures' = failures + 1
          /\ PrinterEvent(Event(EventOf(Head(todo).kind), "ERR",
                                Head(todo).name, Head(todo).color))
    /\ After(Tail(todo))
    /\ UNCHANGED <<remote, slugs, labels_specs, mode, dry_run, plan,
                   printer_repos, calls, planned, ret, run, first_calls,
                   first_events>>

\* ProcessDry reporting the first operation of a repository only
ProcessDry_first_only ==
    /\ pc = "apply" /\ dry_run
    /\ PrinterEvent(Event(EventOf(Head(todo).kind), "DRY",
                          Head(todo).name, Head(todo).color))
    /\ After(<<>>)
    /\ UNCHANGED <<remote, slugs, labels_specs, mode, dry_run, plan,
                   printer_repos, calls, planned, ret, run, failures, first_calls,
                   first_events>>

\* DryRunProcessor._process_create / _process_update / _process_delete
ProcessDry ==
    /\ pc = "apply" /\ dry_run
    /\ PrinterEvent(Event(EventOf(Head(todo).kind), "DRY",
                          Head(todo).name, Head(todo).color))
    /\ After(Tail(todo))
    /\ UNCHANGED <<remote, slugs, labels_specs, mode, dry_run, plan,
                   printer_repos, calls, planned, ret, run, failures, first_calls, first_events>>

\* run: the loop is over, the summary is printed and the status returned
RunReturn ==
    /\ pc = "fetch" /\ idx > Len(slugs)
    /\ pc' = "done"
    /\ ret' = IF printer_errors > 0 THEN DEFAULT_ERROR_RETURN
              ELSE DEFAULT_SUCCESS_RETURN
    /\ UNCHANGED <<remote, slugs, labels_specs, mode, dry_run, idx, plan, todo,
                   printer_repos, printer_errors, events, calls, planned, run,
                   failures, first_calls, first_events>>

(***************************************************************************)
(* The webhook relay: LabelordChange, LabelordWeb, hook_accept             *)
(*                                                                         *)
(* time.time() is a real number; the model's clock counts ticks of         *)
(* 1 / TicksPerSecond seconds, and int(time.time()) is the whole seconds.  *)
(***************************************************************************)
CHANGE_TIMEOUT == 10
TicksPerSecond == 3

\* int(time.time()) at clock value t
IntTime(t) == t \div TicksPerSecond

\* Python's None
None == "None"

\* the configured repositories, in the order of the configuration (self.repos)
Members == <<"A", "B", "C">>
MemberSet == {Members[i] : i \in 1..Len(Members)}
\* a repository that is not configured
Stranger == "Z"

\* the request handlers (threads) of the server
Handlers == {1, 2}
\* the handler at work when the server handles one request at a time
Serial == {1}

\* the label changes a notification of the model can carry: the label's name
\* and color after the change and, for a rename, the name before
\* (changes.name.from, None when 'name' is not in changes)
Payloads == {
    [action |-> "created", name |-> "x", color |-> "c0ffee", from |-> None],
    [action |-> "deleted", name |-> "x", color |-> "c0ffee", from |-> None],
    [action |-> "edited",  name |-> "y", color |-> "c0ffee", from |-> "x"] }

\* the POST requests of the model: signed label notifications of the members,
\* and one request of each kind that hook_accept turns away or only
\* acknowledges. Of a request the model keeps whether its body parses as
\* JSON (json_ok), whether the header X-Hub-Signature is ASCII (sig_ascii)
\* and whether it is the signature of the body (sig_ok), the header
\* X-GitHub-Event, and from the body the repository and the label change.
\* These requests all have a body that parses and an ASCII signature header.
LabelRequests ==
    {[json_ok |-> TRUE, sig_ascii |-> TRUE, sig_ok |-> TRUE, event |-> "label", repo |-> r, action |-> p.action,
      name |-> p.name, color |-> p.color, from |-> p.from] :
        r \in MemberSet, p \in Payloads}

OtherRequests == {
    [json_ok |-> TRUE, sig_ascii |-> TRUE,
     sig_ok |-> FALSE, event |-> "label", repo |-> "A", action |-> "created",
     name |-> "x", color |-> "c0ffee", from |-> None],
    [json_ok |-> TRUE, sig_ascii |-> TRUE,
     sig_ok |-> TRUE, event |-> "label", repo |-> Stranger, action |-> "created",
     name |-> "x", color |-> "c0ffee", from |-> None],
    [json_ok |-> TRUE, sig_ascii |-> TRUE,
     sig_ok |-> TRUE, event |-> "ping", repo |-> "A", action |-> None,
     name |-> None, color |-> None, from |-> None],
    [json_ok |-> TRUE, sig_ascii |-> TRUE,
     sig_ok |-> TRUE, event |-> "push", repo |-> "A", action |-> None,
     name |-> None, color |-> None, from |-> None] }

Requests == LabelRequests \cup OtherRequests

NoRequest == [json_ok |-> FALSE, sig_ascii |-> FALSE, sig_ok |-> FALSE, event |-> None, repo |-> None, action |-> None,
              name |-> None, color |-> None, from |-> None]

\* LabelordChange.__init__ at clock value t (born is history: the clock value
\* itself, which the code does not keep)
LabelordChange(action, name, color, t) ==
    [action |-> action, name |-> name,
     color |-> IF action = "deleted" THEN None ELSE color,
     old_name |-> None, new_name |-> None,
     timestamp |-> IntTime(t), born |-> t]

NoChange == LabelordChange(None, None, None, 0)

\* LabelordChange.tuple
Tuple(c) == <<c.action, c.name, c.color, c.old_name>>

\* LabelordChange.__eq__
Eq(c, d) == Tuple(c) = Tuple(d)

\* is_valid with >= for >
is_valid_ge(c, t) == c.timestamp >= IntTime(t) - CHANGE_TIMEOUT

\* LabelordChange.is_valid at clock value t
is_valid(c, t) == c.timestamp > IntTime(t) - CHANGE_TIMEOUT

\* the change process_label_webhook builds from the notification
ChangeOf(q, t) ==
    LET c == LabelordChange(q.action, q.name, q.color, t)
    IN  IF q.action = "edited" /\ q.from # None
        THEN [c EXCEPT !.new_name = q.name, !.name = q.from]
        ELSE c

\* change in list
Contains(list, c) == \E i \in 1..Len(list) : Eq(list[i], c)

\* self.ignores[r] where self.ignores has no key r, and where it holds list
Absent == [has |-> FALSE, list |-> <<>>]
Held(list) == [has |-> TRUE, list |-> list]

\* RelayCall whose update looks the label up by its own name
RelayCall_own_name(q, r, ok) ==
    CASE q.action = "created" ->
            [op |-> "create", repo |-> r, name |-> q.name, color |-> q.color,
             old_name |-> None, ok |-> ok]
      [] q.action = "deleted" ->
            [op |-> "delete", repo |-> r, name |-> q.name, color |-> None,
             old_name |-> None, ok |-> ok]
      [] q.action = "edited" ->
            [op |-> "update", repo |-> r, name |-> q.name, color |-> q.color,
             old_name |-> q.name, ok |-> ok]

\* the call process_label_webhook_create / _delete / _edit makes on repo r
RelayCall(q, r, ok) ==
    CASE q.action = "created" ->
            [op |-> "create", repo |-> r, name |-> q.name, color |-> q.color,
             old_name |-> None, ok |-> ok]
      [] q.action = "deleted" ->
            [op |-> "delete", repo |-> r, name |-> q.name, color |-> None,
             old_name |-> None, ok |-> ok]
      [] q.action = "edited" ->
            [op |-> "update", repo |-> r, name |-> q.name, color |-> q.color,
             old_name |-> IF q.from # None THEN q.from ELSE q.name, ok |-> ok]

VARIABLES
    now,        \* the clock, in ticks
    advances,   \* how often the clock has been advanced
    seen,       \* how many requests have been accepted
    ignores,    \* self.ignores: repository -> Held(list of changes), or Absent
    keys,       \* the keys of self.ignores in the order of their insertion
    hpc,        \* per handler: its position in hook_accept / process_label_webhook
    hreq,       \* per handler: the request
    hchange,    \* per handler: the change built from the notification
    hi,         \* per handler: the index of the loop over keys or repositories
    hj,         \* per handler: the index of its loop over the elements of a list
    hlist,      \* per handler: the list object that loop runs over
    hsnap,      \* per handler: the list the comprehension of cleanup_ignores builds
    hresp,      \* per handler: the status of its last response (0: none yet)
    hcalls,     \* per handler, history: the API calls made for its request
    houtcome,   \* per handler, history: what became of its request
    hcase,      \* per handler, history: the equal records at its arrival
    harrival,   \* per handler, history: the state of things at its arrival
    hsize       \* per handler: len(self.ignores) when its cleanup loop began

relayvars == <<now, advances, seen, ignores, keys, hpc, hreq, hchange, hi, hj,
               hlist, hsnap, hresp, hcalls, houtcome, hcase, harrival, hsize>>

\* no request has arrived yet
NoArrival == [at |-> 0, clock |-> 0, matches |-> 0, youngest |-> -1,
              busy |-> {}, after_failure |-> FALSE]

\* a handler's reference to a list object: to the one self.ignores holds for
\* the key of its loop (live), or to one that has been replaced there since
\* the handler read it, with the elements it holds. No other handler changes
\* a replaced list: with two handlers, the one that replaced it has let go
\* of it. NoList: the handler is in no loop over a list.
NoList == [live |-> FALSE, list |-> <<>>]
TheList == [live |-> TRUE, list |-> <<>>]

RelayInit ==
    /\ now = 0 /\ advances = 0 /\ seen = 0
    /\ ignores = [r \in MemberSet |-> Absent]
    /\ keys = <<>>
    /\ hpc = [h \in Handlers |-> "idle"]
    /\ hreq = [h \in Handlers |-> NoRequest]
    /\ hchange = [h \in Handlers |-> NoChange]
    /\ hi = [h \in Handlers |-> 1]
    /\ hj = [h \in Handlers |-> 1]
    /\ hlist = [h \in Handlers |-> NoList]
    /\ hsnap = [h \in Handlers |-> <<>>]
    /\ hresp = [h \in Handlers |-> 0]
    /\ hcalls = [h \in Handlers |-> <<>>]
    /\ houtcome = [h \in Handlers |-> "none"]
    /\ hcase = [h \in Handlers |-> "none"]
    /\ harrival = [h \in Handlers |-> NoArrival]
    /\ hsize = [h \in Handlers |-> 0]

\* time passes: the clock advances by d ticks, between two requests or
\* between two steps of a handler
Advance(d) ==
    /\ advances < MaxAdvances
    /\ advances' = advances + 1
    /\ now' = now + d
    /\ UNCHANGED <<seen, ignores, keys, hpc, hreq, hchange, hi, hj, hlist,
                   hsnap, hresp, hcalls, houtcome, hcase, harrival, hsize>>

\* the real age, in ticks, of record c at clock value t
Age(c, t) == t - c.born

WindowTicks == CHANGE_TIMEOUT * TicksPerSecond

\* history: what the list of q's repository holds for q when q arrives:
\* "fresh" if an equal record is younger than 10 seconds, "expired" if there
\* are equal records and all are 10 seconds old or older, "none" otherwise
CaseOf(q) ==
    LET list == IF q.repo \in MemberSet THEN ignores[q.repo].list ELSE <<>>
        equal == {i \in 1..Len(list) : Eq(list[i], ChangeOf(q, now))}
    IN  IF \E i \in equal : Age(list[i], now) < WindowTicks THEN "fresh"
        ELSE IF equal # {} THEN "expired"
        ELSE "none"

\* len(self.ignores)
KeyCount == Len(keys)

\* handler h, whose last notification was propagated with a failed call on
\* the repository of request q, receives q less than 10 seconds after it
\* registered the record of that notification, and q's change equals it
AfterFailedCall(h, q) ==
    /\ hpc[h] = "idle" /\ houtcome[h] = "propagated"
    /\ q.repo \in MemberSet
    /\ \E i \in 1..Len(hcalls[h]) : hcalls[h][i].repo = q.repo /\ ~hcalls[h][i].ok
    /\ Eq(hchange[h], ChangeOf(q, now))
    /\ Age(hchange[h], now) < WindowTicks

\* history: the number of the request, the clock value at its arrival, how
\* many unexpired records of the list of q's repository equal q's change
\* when q arrives at handler h, the
\* clock value at which the youngest of the equal records was made (-1 when
\* there is none), which other handlers are at work then, and whether q
\* arrives after a failed call as described above
ArrivalOf(h, q) ==
    LET list == IF q.repo \in MemberSet THEN ignores[q.repo].list ELSE <<>>
        equal == {i \in 1..Len(list) : Eq(list[i], ChangeOf(q, now))}
    IN  [at |-> seen + 1,
         clock |-> now,
         matches |-> Cardinality({i \in equal : is_valid(list[i], now)}),
         youngest |-> IF equal = {} THEN -1
                      ELSE CHOOSE b \in {list[i].born : i \in equal} :
                               \A i \in equal : list[i].born <= b,
         busy |-> {g \in Handlers \ {h} : hpc[g] # "idle"},
         after_failure |-> AfterFailedCall(h, q)]

\* the handler is through: its response, and what became of the request
Finish(h, status, outcome) ==
    /\ hpc' = [hpc EXCEPT ![h] = "idle"]
    /\ hresp' = [hresp EXCEPT ![h] = status]
    /\ houtcome' = [houtcome EXCEPT ![h] = outcome]

\* hook_accept without its membership test: process_label_webhook is called
\* for every label notification
HookAccept_any_repo(h, q) ==
    /\ hpc[h] = "idle" /\ seen < MaxNotifs
    /\ seen' = seen + 1
    /\ hreq' = [hreq EXCEPT ![h] = q]
    /\ hcalls' = [hcalls EXCEPT ![h] = <<>>]
    /\ hcase' = [hcase EXCEPT ![h] = CaseOf(q)]
    /\ hchange' = [hchange EXCEPT ![h] = NoChange]
    /\ hsnap' = [hsnap EXCEPT ![h] = <<>>]
    /\ hi' = [hi EXCEPT ![h] = 1]
    /\ hj' = [hj EXCEPT ![h] = 1]
    /\ hlist' = [hlist EXCEPT ![h] = NoList]
    /\ harrival' = [harrival EXCEPT ![h] = ArrivalOf(h, q)]
    /\ hsize' = [hsize EXCEPT ![h] =
                    IF q.json_ok /\ q.sig_ok /\ q.event = "label" THEN KeyCount ELSE 0]
    /\ IF ~q.json_ok THEN Finish(h, 400, "rejected")
       ELSE IF ~q.sig_ascii THEN Finish(h, 500, "error")
       ELSE IF ~q.sig_ok THEN Finish(h, 401, "rejected")
            ELSE IF q.event = "label"
            THEN /\ hpc' = [hpc EXCEPT ![h] = "cleanup"]
                 /\ hresp' = [hresp EXCEPT ![h] = 0]
                 /\ houtcome' = [houtcome EXCEPT ![h] = "none"]
            ELSE IF q.event = "ping" THEN Finish(h, 200, "ping")
            ELSE Finish(h, 400, "rejected")
    /\ UNCHANGED <<now, advances, ignores, keys>>

\* hook_accept acknowledging every event kind it does not process
HookAccept_ack_all(h, q) ==
    /\ hpc[h] = "idle" /\ seen < MaxNotifs
    /\ seen' = seen + 1
    /\ hreq' = [hreq EXCEPT ![h] = q]
    /\ hcalls' = [hcalls EXCEPT ![h] = <<>>]
    /\ hcase' = [hcase EXCEPT ![h] = CaseOf(q)]
    /\ hchange' = [hchange EXCEPT ![h] = NoChange]
    /\ hsnap' = [hsnap EXCEPT ![h] = <<>>]
    /\ hi' = [hi EXCEPT ![h] = 1]
    /\ hj' = [hj EXCEPT ![h] = 1]
    /\ hlist' = [hlist EXCEPT ![h] = NoList]
    /\ harrival' = [harrival EXCEPT ![h] = ArrivalOf(h, q)]
    /\ hsize' = [hsize EXCEPT ![h] =
                    IF q.json_ok /\ q.sig_ok /\ q.event = "label" /\ q.repo \in MemberSet
                    THEN KeyCount ELSE 0]
    /\ IF ~q.json_ok THEN Finish(h, 400, "rejected")
       ELSE IF ~q.sig_ascii THEN Finish(h, 500, "error")
       ELSE IF ~q.sig_ok THEN Finish(h, 401, "rejected")
            ELSE IF q.event = "label"
            THEN IF q.repo \notin MemberSet THEN Finish(h, 400, "rejected")
                 ELSE /\ hpc' = [hpc EXCEPT ![h] = "cleanup"]
                      /\ hresp' = [hresp EXCEPT ![h] = 0]
                      /\ houtcome' = [houtcome EXCEPT ![h] = "none"]
            ELSE Finish(h, 200, "ping")
    /\ UNCHANGED <<now, advances, ignores, keys>>

\* hook_accept: get_json aborts with 400 when the body does not parse; then
\* the signature check, in which compare_digest raises TypeError when the
\* header is not ASCII (the request ends with status 500) and whose result
\* False gives 401; then the dispatch on the event kind
HookAccept(h, q) ==
    /\ hpc[h] = "idle" /\ seen < MaxNotifs
    /\ seen' = seen + 1
    /\ hreq' = [hreq EXCEPT ![h] = q]
    /\ hcalls' = [hcalls EXCEPT ![h] = <<>>]
    /\ hcase' = [hcase EXCEPT ![h] = CaseOf(q)]
    /\ hchange' = [hchange EXCEPT ![h] = NoChange]
    /\ hsnap' = [hsnap EXCEPT ![h] = <<>>]
    /\ hi' = [hi EXCEPT ![h] = 1]
    /\ hj' = [hj EXCEPT ![h] = 1]
    /\ hlist' = [hlist EXCEPT ![h] = NoList]
    /\ harrival' = [harrival EXCEPT ![h] = ArrivalOf(h, q)]
    /\ hsize' = [hsize EXCEPT ![h] =
                    IF q.json_ok /\ q.sig_ok /\ q.event = "label" /\ q.repo \in MemberSet
                    THEN KeyCount ELSE 0]
    /\ IF ~q.json_ok THEN Finish(h, 400, "rejected")
       ELSE IF ~q.sig_ascii THEN Finish(h, 500, "error")
       ELSE IF ~q.sig_ok THEN Finish(h, 401, "rejected")
            ELSE IF q.event = "label"
            THEN IF q.repo \notin MemberSet THEN Finish(h, 400, "rejected")
                 ELSE /\ hpc' = [hpc EXCEPT ![h] = "cleanup"]
                      /\ hresp' = [hresp EXCEPT ![h] = 0]
                      /\ houtcome' = [houtcome EXCEPT ![h] = "none"]
            ELSE IF q.event = "ping" THEN Finish(h, 200, "ping")
            ELSE Finish(h, 400, "rejected")
    /\ UNCHANGED <<now, advances, ignores, keys>>

\* the key of the list that handler h's loop over elements runs over
HeldKey(h) ==
    IF hpc[h] = "cleanup_iter" THEN keys[hi[h]]
    ELSE IF hpc[h] = "append" THEN Members[hi[h]]
    ELSE hreq[h].repo

\* handler h holds a list it has read from self.ignores: it is in a loop
\* over the elements of the list, or about to append to it
InLoop(h) ==
    hpc[h] \in {"cleanup_iter", "lookup_iter", "remove_iter", "remove_del", "append"}

\* the elements of the list object handler h's loop runs over, as they are now
Live(h) == IF hlist[h].live THEN ignores[HeldKey(h)].list ELSE hlist[h].list

\* self.ignores[r] = list, by handler h: the handlers that are in a loop over
\* the list that was there keep that list
Replaced(h, r) ==
    [g \in Handlers |->
        IF g # h /\ InLoop(g) /\ hlist[g].live /\ HeldKey(g) = r
        THEN [live |-> FALSE, list |-> ignores[r].list]
        ELSE IF g = h THEN NoList ELSE hlist[g]]

\* a removal of every element equal to the one at k
DelAt_all(list, k) ==
    IF k > Len(list) THEN list
    ELSE SelectSeq(list, LAMBDA e : ~Eq(e, list[k]))

\* del list[k:k+1]
DelAt(list, k) ==
    IF k > Len(list) THEN list
    ELSE [i \in 1..(Len(list) - 1) |-> IF i < k THEN list[i] ELSE list[i + 1]]

\* cleanup_ignores, for repo in self.ignores: the iterator of the dict
\* raises RuntimeError when the dict has got a new key since the loop began,
\* and gives the keys in the order of their insertion; after the last key
\* process_label_webhook goes on
CleanupNext(h) ==
    /\ hpc[h] = "cleanup"
    /\ hsize' = [hsize EXCEPT ![h] = IF hi[h] <= KeyCount /\ KeyCount = @ THEN @ ELSE 0]
    /\ IF KeyCount # hsize[h]
       THEN /\ Finish(h, 500, "failed")
            /\ UNCHANGED <<hj, hlist, hsnap>>
       ELSE IF hi[h] > KeyCount
       THEN /\ hpc' = [hpc EXCEPT ![h] = "build"]
            /\ UNCHANGED <<hj, hlist, hsnap, hresp, houtcome>>
       ELSE /\ hpc' = [hpc EXCEPT ![h] = "cleanup_load"]
            /\ UNCHANGED <<hj, hlist, hsnap, hresp, houtcome>>
    /\ UNCHANGED <<now, advances, seen, ignores, keys, hreq, hchange, hi,
                   hcalls, hcase, harrival>>

\* cleanup_ignores, for the key the iterator has given: self.ignores[repo] is
\* read, and the comprehension begins on the list that is there then
CleanupLoad(h) ==
    /\ hpc[h] = "cleanup_load"
    /\ hpc' = [hpc EXCEPT ![h] = "cleanup_iter"]
    /\ hj' = [hj EXCEPT ![h] = 1]
    /\ hlist' = [hlist EXCEPT ![h] = TheList]
    /\ hsnap' = [hsnap EXCEPT ![h] = <<>>]
    /\ UNCHANGED <<now, advances, seen, ignores, keys, hreq, hchange, hi, hresp,
                   hcalls, houtcome, hcase, harrival, hsize>>

\* the comprehension of cleanup_ignores, one element of the list: c.is_valid()
\* reads the clock, and a valid c goes to the list being built; the loop is
\* over when its index has reached the length the list has then
CleanupRead(h) ==
    /\ hpc[h] = "cleanup_iter"
    /\ IF hj[h] > Len(Live(h))
       THEN /\ hpc' = [hpc EXCEPT ![h] = "cleanup_store"]
            /\ hj' = [hj EXCEPT ![h] = 1]
            /\ hlist' = [hlist EXCEPT ![h] = NoList]
            /\ UNCHANGED hsnap
       ELSE /\ hsnap' = [hsnap EXCEPT ![h] =
                            IF is_valid(Live(h)[hj[h]], now)
                            THEN Append(@, Live(h)[hj[h]]) ELSE @]
            /\ hj' = [hj EXCEPT ![h] = @ + 1]
            /\ UNCHANGED <<hpc, hlist>>
    /\ UNCHANGED <<now, advances, seen, ignores, keys, hreq, hchange, hi, hresp,
                   hcalls, houtcome, hcase, harrival, hsize>>

\* cleanup_ignores: self.ignores[repo] = the list built
CleanupStore(h) ==
    /\ hpc[h] = "cleanup_store"
    /\ ignores' = [ignores EXCEPT ![keys[hi[h]]] = Held(hsnap[h])]
    /\ hlist' = Replaced(h, keys[hi[h]])
    /\ hsnap' = [hsnap EXCEPT ![h] = <<>>]
    /\ hi' = [hi EXCEPT ![h] = @ + 1]
    /\ hpc' = [hpc EXCEPT ![h] = "cleanup"]
    /\ UNCHANGED <<now, advances, seen, keys, hreq, hchange, hj, hresp, hcalls,
                   houtcome, hcase, harrival, hsize>>

\* process_label_webhook after the cleanup: the membership filter, and the
\* change is built, which reads the clock
Build(h) ==
    /\ hpc[h] = "build"
    /\ IF hreq[h].repo \notin MemberSet
       THEN /\ Finish(h, 200, "filtered")
            /\ UNCHANGED hchange
       ELSE /\ hchange' = [hchange EXCEPT ![h] = ChangeOf(hreq[h], now)]
            /\ hpc' = [hpc EXCEPT ![h] = "lookup"]
            /\ UNCHANGED <<hresp, houtcome>>
    /\ UNCHANGED <<now, advances, seen, ignores, keys, hreq, hi, hj, hlist,
                   hsnap, hcalls, hcase, harrival, hsize>>

\* repo in self.ignores and change in self.ignores[repo]: the key is looked
\* up, and the search of its list begins
Lookup(h) ==
    /\ hpc[h] = "lookup"
    /\ IF ignores[hreq[h].repo].has
       THEN /\ hpc' = [hpc EXCEPT ![h] = "lookup_iter"]
            /\ hlist' = [hlist EXCEPT ![h] = TheList]
       ELSE /\ hpc' = [hpc EXCEPT ![h] = "relay"]
            /\ UNCHANGED hlist
    /\ hi' = [hi EXCEPT ![h] = 1]
    /\ hj' = [hj EXCEPT ![h] = 1]
    /\ UNCHANGED <<now, advances, seen, ignores, keys, hreq, hchange, hsnap,
                   hresp, hcalls, houtcome, hcase, harrival, hsize>>

\* change in self.ignores[repo], one element of the list: __eq__ compares it
\* with the change; the search is over at an equal element, or when its index
\* has reached the length the list has then
LookupRead(h) ==
    /\ hpc[h] = "lookup_iter"
    /\ IF hj[h] > Len(Live(h))
       THEN /\ hpc' = [hpc EXCEPT ![h] = "relay"]
            /\ hj' = [hj EXCEPT ![h] = 1]
            /\ hlist' = [hlist EXCEPT ![h] = NoList]
       ELSE IF Eq(Live(h)[hj[h]], hchange[h])
       THEN /\ hpc' = [hpc EXCEPT ![h] = "remove"]
            /\ hj' = [hj EXCEPT ![h] = 1]
            /\ hlist' = [hlist EXCEPT ![h] = NoList]
       ELSE /\ hj' = [hj EXCEPT ![h] = @ + 1]
            /\ UNCHANGED <<hpc, hlist>>
    /\ UNCHANGED <<now, advances, seen, ignores, keys, hreq, hchange, hi, hsnap,
                   hresp, hcalls, houtcome, hcase, harrival, hsize>>

\* self.ignores[repo].remove(change): the list is read again
RemoveLoad(h) ==
    /\ hpc[h] = "remove"
    /\ hpc' = [hpc EXCEPT ![h] = "remove_iter"]
    /\ hlist' = [hlist EXCEPT ![h] = TheList]
    /\ UNCHANGED <<now, advances, seen, ignores, keys, hreq, hchange, hi, hj,
                   hsnap, hresp, hcalls, houtcome, hcase, harrival, hsize>>

\* list.remove, one element of the list: __eq__ compares it with the change;
\* remove raises ValueError when its index has reached the length of the
\* list and no element was equal
RemoveRead(h) ==
    /\ hpc[h] = "remove_iter"
    /\ IF hj[h] > Len(Live(h))
       THEN /\ Finish(h, 500, "failed")
            /\ hj' = [hj EXCEPT ![h] = 1]
            /\ hlist' = [hlist EXCEPT ![h] = NoList]
       ELSE IF Eq(Live(h)[hj[h]], hchange[h])
       THEN /\ hpc' = [hpc EXCEPT ![h] = "remove_del"]
            /\ UNCHANGED <<hj, hlist, hresp, houtcome>>
       ELSE /\ hj' = [hj EXCEPT ![h] = @ + 1]
            /\ UNCHANGED <<hpc, hlist, hresp, houtcome>>
    /\ UNCHANGED <<now, advances, seen, ignores, keys, hreq, hchange, hi, hsnap,
                   hcalls, hcase, harrival, hsize>>

\* list.remove after __eq__ has returned true for the element at its index:
\* what the list holds at that index now is taken out of it, and
\* process_label_webhook returns: the notification is an echo
RemoveEcho(h) ==
    /\ hpc[h] = "remove_del"
    /\ IF hlist[h].live
       THEN ignores' = [ignores EXCEPT ![hreq[h].repo].list = DelAt(@, hj[h])]
       ELSE UNCHANGED ignores
    /\ hj' = [hj EXCEPT ![h] = 1]
    /\ hlist' = [hlist EXCEPT ![h] = NoList]
    /\ Finish(h, 200, "suppressed")
    /\ UNCHANGED <<now, advances, seen, keys, hreq, hchange, hi, hsnap, hcalls,
                   hcase, harrival, hsize>>

\* the loop over self.repos: the origin is skipped; after the last
\* repository the handler returns
RelayNext(h) ==
    /\ hpc[h] = "relay"
    /\ IF hi[h] > Len(Members)
       THEN /\ Finish(h, 200, "propagated")
            /\ UNCHANGED hi
       ELSE /\ Members[hi[h]] = hreq[h].repo
            /\ hi' = [hi EXCEPT ![h] = @ + 1]
            /\ UNCHANGED <<hpc, hresp, houtcome>>
    /\ UNCHANGED <<now, advances, seen, ignores, keys, hreq, hchange, hj, hlist,
                   hsnap, hcalls, hcase, harrival, hsize>>

\* the loop going on to the API call without registering the change
EnsureTest_unregistered(h) ==
    /\ hpc[h] = "relay" /\ hi[h] <= Len(Members)
    /\ Members[hi[h]] # hreq[h].repo
    /\ hpc' = [hpc EXCEPT ![h] = "call"]
    /\ UNCHANGED <<now, advances, seen, ignores, keys, hreq, hchange, hi, hj,
                   hlist, hsnap, hresp, hcalls, houtcome, hcase, harrival,
                   hsize>>

\* if r not in self.ignores: the test
EnsureTest(h) ==
    /\ hpc[h] = "relay" /\ hi[h] <= Len(Members)
    /\ Members[hi[h]] # hreq[h].repo
    /\ hpc' = [hpc EXCEPT ![h] =
          IF ignores[Members[hi[h]]].has THEN "append_load" ELSE "ensure"]
    /\ UNCHANGED <<now, advances, seen, ignores, keys, hreq, hchange, hi, hj,
                   hlist, hsnap, hresp, hcalls, houtcome, hcase, harrival,
                   hsize>>

\* self.ignores[r] = []: a new key goes to the end of the dict; a key that
\* has been inserted meanwhile keeps its place and gets the new list
EnsureSet(h) ==
    /\ hpc[h] = "ensure"
    /\ ignores' = [ignores EXCEPT ![Members[hi[h]]] = Held(<<>>)]
    /\ keys' = IF ignores[Members[hi[h]]].has THEN keys
               ELSE Append(keys, Members[hi[h]])
    /\ hlist' = Replaced(h, Members[hi[h]])
    /\ hpc' = [hpc EXCEPT ![h] = "append_load"]
    /\ UNCHANGED <<now, advances, seen, hreq, hchange, hi, hj, hsnap, hresp,
                   hcalls, houtcome, hcase, harrival, hsize>>

\* self.ignores[r].append(change): self.ignores[r] is read
RegisterLoad(h) ==
    /\ hpc[h] = "append_load"
    /\ ignores[Members[hi[h]]].has
    /\ hlist' = [hlist EXCEPT ![h] = TheList]
    /\ hpc' = [hpc EXCEPT ![h] = "append"]
    /\ UNCHANGED <<now, advances, seen, ignores, keys, hreq, hchange, hi, hj,
                   hsnap, hresp, hcalls, houtcome, hcase, harrival, hsize>>

\* self.ignores[r].append(change): append on the list that was read, which
\* self.ignores[r] holds no more when the list has been replaced since
Register(h) ==
    /\ hpc[h] = "append"
    /\ IF hlist[h].live
       THEN ignores' = [ignores EXCEPT ![Members[hi[h]]].list = Append(@, hchange[h])]
       ELSE UNCHANGED ignores
    /\ hlist' = [hlist EXCEPT ![h] = NoList]
    /\ hpc' = [hpc EXCEPT ![h] = "call"]
    /\ UNCHANGED <<now, advances, seen, keys, hreq, hchange, hi, hj,
                   hsnap, hresp, hcalls, houtcome, hcase, harrival, hsize>>

\* Call without the except clause: a GitHubError ends the handler
Call_abort(h, ok) ==
    /\ hpc[h] = "call"
    /\ hcalls' = [hcalls EXCEPT ![h] =
                     Append(@, RelayCall(hreq[h], Members[hi[h]], ok))]
    /\ IF ok
       THEN /\ hi' = [hi EXCEPT ![h] = @ + 1]
            /\ hpc' = [hpc EXCEPT ![h] = "relay"]
            /\ UNCHANGED <<hresp, houtcome>>
       ELSE /\ Finish(h, 500, "failed")
            /\ UNCHANGED hi
    /\ UNCHANGED <<now, advances, seen, ignores, keys, hreq, hchange, hj, hlist,
                   hsnap, hcase, harrival, hsize>>

\* the API call on r returns, or raises GitHubError, which is ignored
Call(h, ok) ==
    /\ hpc[h] = "call"
    /\ hcalls' = [hcalls EXCEPT ![h] =
                     Append(@, RelayCall(hreq[h], Members[hi[h]], ok))]
    /\ hi' = [hi EXCEPT ![h] = @ + 1]
    /\ hpc' = [hpc EXCEPT ![h] = "relay"]
    /\ UNCHANGED <<now, advances, seen, ignores, keys, hreq, hchange, hj, hlist,
                   hsnap, hresp, houtcome, hcase, harrival, hsize>>

(***************************************************************************)
(* The GitHub client: typed failure of a call                              *)
(* (src/labelord/github.py, lines 6-96)                                    *)
(***************************************************************************)
\* the bound on the pages of a listing
MaxPages == 2
MaxItems == 2

\* the status codes of the responses
Statuses == {200, 201, 204, 401, 404, 422}

\* the JSON object of a response: with a member 'message', or without one
Bodies ==
    {[has |-> FALSE, message |-> ""]} \cup
    {[has |-> TRUE, message |-> m] :
        m \in {"Not Found", "Bad credentials", "Validation Failed"}}

Responses == [status_code : Statuses, json : Bodies]

\* the JSON of a page of a listing: an array of items
IsArray(json) == "items" \in DOMAIN json

\* the items of the pages of /repos/<slug>/labels and of /user/repos
LabelItems == [name : {"bug", "feature"}, color : {"ee0701"}] \cup
              {[name |-> "bug", color |-> "00ff00"]}
RepoItems == {[name |-> "A", full_name |-> "o/A"], [name |-> "B", full_name |-> "o/B"]}

\* the pages of a listing: a page is fetched and carries an array of at most
\* MaxItems items, or it is refused and carries the JSON object of an error
PagesOf(Items) ==
    [status_code : {200}, json : [items : SeqsUpTo(Items, MaxItems)]] \cup
    [status_code : {201, 404},
     json : {b \in Bodies : b.message \in {"", "Not Found"}}]

LabelListings == SeqsUpTo(PagesOf(LabelItems), MaxPages) \ {<<>>}
RepoListings == SeqsUpTo(PagesOf(RepoItems), MaxPages) \ {<<>>}

\* str() of a natural number: its decimal digits
DecimalDigit(d) ==
    CASE d = 0 -> "0" [] d = 1 -> "1" [] d = 2 -> "2" [] d = 3 -> "3"
      [] d = 4 -> "4" [] d = 5 -> "5" [] d = 6 -> "6" [] d = 7 -> "7"
      [] d = 8 -> "8" [] d = 9 -> "9"

RECURSIVE str(_)
str(n) == IF n < 10 THEN DecimalDigit(n) ELSE str(n \div 10) \o DecimalDigit(n % 10)

\* GitHubError.__init__
GitHubError(response) ==
    [status_code |-> response.status_code,
     message |-> IF response.json.has THEN response.json.message
                 ELSE "No message provided"]

\* GitHubError.code_message: sep.join([str(status_code), message])
code_message(error) == str(error.status_code) \o " - " \o error.message

\* GitHubError.__str__
error_str(error) == "GitHub: ERROR " \o code_message(error)

\* what a call of the client gives: it returns a value (None for the calls
\* that change a label), or it raises an exception
Returned ==
    [raised |-> FALSE, exception |-> "", status_code |-> 0, message |-> "",
     text |-> "", value |-> <<>>]

ReturnedValue(v) == [Returned EXCEPT !.value = v]

Raised(error) ==
    [raised |-> TRUE, exception |-> "GitHubError", status_code |-> error.status_code,
     message |-> error.message, text |-> error_str(error), value |-> <<>>]

\* an exception of Python raised in the client
Exception(name) ==
    [raised |-> TRUE, exception |-> name, status_code |-> 0, message |-> "",
     text |-> "", value |-> <<>>]

\* raise GitHubError(response): response.json().get fails on an array
Raise(response) ==
    IF IsArray(response.json) THEN Exception("AttributeError")
    ELSE Raised(GitHubError(response))

\* create_label taking the status of an update for its success
create_label_200(response) ==
    IF response.status_code # 200 THEN Raise(response) ELSE Returned

create_label(response) ==
    IF response.status_code # 201 THEN Raise(response) ELSE Returned

update_label(response) ==
    IF response.status_code # 200 THEN Raise(response) ELSE Returned

delete_label(response) ==
    IF response.status_code # 204 THEN Raise(response) ELSE Returned

\* _get_raising with the default expected_code
get_raising(response) ==
    IF response.status_code # 200 THEN Raise(response) ELSE Returned

\* yield from response.json(): the items of an array in order, the keys of
\* an object (strings)
Yielded(json) ==
    IF IsArray(json) THEN [k \in 1..Len(json.items) |-> [yield |-> json.items[k]]]
    ELSE IF json.has THEN <<[yield |-> [str |-> "message"]]>>
    ELSE <<>>

\* _get_all_data: the generator, as what it gives its consumer in order, from
\* page i on: the elements of each page that was fetched, and at a page that
\* was refused the exception, after which it gives nothing. Each page but
\* the last one names its successor in the link 'next'. A page is requested
\* only when the consumer has taken every element of the pages before it.
RECURSIVE get_all_data(_, _)
get_all_data(pages, i) ==
    IF get_raising(pages[i]).raised THEN <<[raise |-> get_raising(pages[i])]>>
    ELSE Yielded(pages[i].json) \o
         (IF i < Len(pages) THEN get_all_data(pages, i + 1) ELSE <<>>)

\* d[name] = color on a dict: the color of an entry that is there is
\* replaced in place, a new entry goes to the end
SetItem(d, name, color) ==
    IF HasName(d, name)
    THEN [k \in 1..Len(d) |-> IF d[k].name = name THEN [d[k] EXCEPT !.color = color]
                                ELSE d[k]]
    ELSE Append(d, [name |-> name, color |-> color])

\* the comprehension of list_labels over the generator, from its element k
\* on: l['name'] and l['color'] of each element (str() of a color, a string,
\* is that string)
RECURSIVE labels_from(_, _, _)
labels_from(data, k, acc) ==
    IF k > Len(data) THEN ReturnedValue(acc)
    ELSE IF "raise" \in DOMAIN data[k] THEN data[k].raise
    ELSE LET l == data[k].yield
         IN  IF "str" \in DOMAIN l THEN Exception("TypeError")
             ELSE IF "name" \notin DOMAIN l \/ "color" \notin DOMAIN l
             THEN Exception("KeyError")
             ELSE labels_from(data, k + 1, SetItem(acc, l.name, l.color))

\* list_labels
list_labels(pages) == labels_from(get_all_data(pages, 1), 1, <<>>)

\* the comprehension of list_repositories: repo['full_name'] of each element
RECURSIVE full_names_from(_, _, _)
full_names_from(data, k, acc) ==
    IF k > Len(data) THEN ReturnedValue(acc)
    ELSE IF "raise" \in DOMAIN data[k] THEN data[k].raise
    ELSE LET repo == data[k].yield
         IN  IF "str" \in DOMAIN repo THEN Exception("TypeError")
             ELSE IF "full_name" \notin DOMAIN repo THEN Exception("KeyError")
             ELSE full_names_from(data, k + 1, Append(acc, repo.full_name))

\* list_repositories
list_repositories(pages) == full_names_from(get_all_data(pages, 1), 1, <<>>)

VARIABLES
    a_response,    \* the response to a call that changes a label
    a_pages,       \* the responses to the page requests of a listing
    a_op,          \* the call made: "none", "create", "update", "delete",
                   \* "list_labels", "list_repositories"
    a_outcome      \* what the call gave

apivars == <<a_response, a_pages, a_op, a_outcome>>

\* the response of the service to the one call that is made: to a call that
\* changes a label, or the pages of a listing
ApiInit ==
    /\ \/ a_response \in Responses /\ a_pages = <<>>
       \/ /\ a_response = [status_code |-> 200, json |-> [has |-> FALSE, message |-> ""]]
          /\ a_pages \in LabelListings \cup RepoListings
    /\ a_op = "none"
    /\ a_outcome = Returned

\* the client is not in use
ApiIdle ==
    /\ a_response = [status_code |-> 200, json |-> [has |-> FALSE, message |-> ""]]
    /\ a_pages = <<>>
    /\ a_op = "none"
    /\ a_outcome = Returned

ApiCreate ==
    /\ a_op = "none" /\ a_pages = <<>>
    /\ a_op' = "create"
    /\ a_outcome' = create_label(a_response)
    /\ UNCHANGED <<a_response, a_pages>>

ApiUpdate ==
    /\ a_op = "none" /\ a_pages = <<>>
    /\ a_op' = "update"
    /\ a_outcome' = update_label(a_response)
    /\ UNCHANGED <<a_response, a_pages>>

ApiDelete ==
    /\ a_op = "none" /\ a_pages = <<>>
    /\ a_op' = "delete"
    /\ a_outcome' = delete_label(a_response)
    /\ UNCHANGED <<a_response, a_pages>>

\* list_labels on the pages of the labels of a repository
ApiList ==
    /\ a_op = "none" /\ a_pages \in LabelListings
    /\ a_op' = "list_labels"
    /\ a_outcome' = list_labels(a_pages)
    /\ UNCHANGED <<a_response, a_pages>>

\* list_repositories on the pages of the repositories of the user
ApiListRepositories ==
    /\ a_op = "none" /\ a_pages \in RepoListings
    /\ a_op' = "list_repositories"
    /\ a_outcome' = list_repositories(a_pages)
    /\ UNCHANGED <<a_response, a_pages>>

(***************************************************************************)
(* Signature of a webhook request (src/labelord/github.py, lines 98-101)   *)
(*                                                                         *)
(* Bytes are the numbers 0..255, a byte string is a sequence of bytes and  *)
(* a 32-bit word is the pair <<high half, low half>> of two 16-bit         *)
(* numbers, so that no intermediate value leaves the 32-bit integers.      *)
(***************************************************************************)
\* 2^n
RECURSIVE Pow2(_)
Pow2(n) == IF n = 0 THEN 1 ELSE 2 * Pow2(n - 1)

\* bitwise and, exclusive or of two naturals
RECURSIVE BitAnd(_, _)
BitAnd(a, b) ==
    IF a = 0 \/ b = 0 THEN 0
    ELSE 2 * BitAnd(a \div 2, b \div 2) + (a % 2) * (b % 2)

BitXor(a, b) == a + b - 2 * BitAnd(a, b)

\* operations on 32-bit words
WAnd(x, y) == <<BitAnd(x[1], y[1]), BitAnd(x[2], y[2])>>

WXor(x, y) == <<BitXor(x[1], y[1]), BitXor(x[2], y[2])>>

WNot(x) == <<65535 - x[1], 65535 - x[2]>>

\* x + y modulo 2^32
WAdd(x, y) ==
    LET lo == x[2] + y[2]
    IN  <<(x[1] + y[1] + lo \div 65536) % 65536, lo % 65536>>

\* x rotated left by n bits, 0 < n < 32
RotL(x, n) ==
    LET y == IF n >= 16 THEN <<x[2], x[1]>> ELSE x
        k == n % 16
    IN  IF k = 0 THEN y
        ELSE <<(y[1] % Pow2(16 - k)) * Pow2(k) + y[2] \div Pow2(16 - k),
               (y[2] % Pow2(16 - k)) * Pow2(k) + y[1] \div Pow2(16 - k)>>

\* the message followed by the bit 1, zero bits up to 56 modulo 64 bytes and
\* the length of the message in bits as a 64-bit big-endian number
ZeroBytes(n) == [i \in 1..n |-> 0]

Sha1Pad(m) ==
    LET bits == 8 * Len(m)
    IN  m \o <<128>> \o ZeroBytes((119 - (Len(m) % 64)) % 64)
          \o <<0, 0, 0, 0, (bits \div 16777216) % 256, (bits \div 65536) % 256,
               (bits \div 256) % 256, bits % 256>>

\* the sixteen big-endian words of block k (from 0) of padded message p
BlockWords(p, k) ==
    [i \in 1..16 |->
        LET o == 64 * k + 4 * (i - 1)
        IN  <<256 * p[o + 1] + p[o + 2], 256 * p[o + 3] + p[o + 4]>>]

\* the message schedule: the words w extended by n words, by one half of
\* them and then by the other
RECURSIVE Sha1Schedule(_, _)
Sha1Schedule(w, n) ==
    IF n = 0 THEN w
    ELSE IF n = 1
    THEN LET t == Len(w) + 1
         IN  Append(w, RotL(WXor(WXor(w[t - 3], w[t - 8]),
                                 WXor(w[t - 14], w[t - 16])), 1))
    ELSE LET v == Sha1Schedule(w, n \div 2)
         IN  IF Len(v) = Len(w) + (n \div 2)
             THEN Sha1Schedule(v, n - (n \div 2)) ELSE v

\* the round function and the round constant of round t (from 0)
Sha1F(t, b, c, d) ==
    IF t < 20 THEN WXor(WAnd(b, c), WAnd(WNot(b), d))
    ELSE IF t < 40 THEN WXor(WXor(b, c), d)
    ELSE IF t < 60 THEN WXor(WXor(WAnd(b, c), WAnd(b, d)), WAnd(c, d))
    ELSE WXor(WXor(b, c), d)

Sha1K(t) ==
    IF t < 20 THEN <<23170, 31129>>
    ELSE IF t < 40 THEN <<28377, 60321>>
    ELSE IF t < 60 THEN <<36635, 48348>>
    ELSE <<51810, 49622>>

\* one round t (from 0) on the working state s = <<a, b, c, d, e>>
Sha1Round(t, s, w) ==
    <<WAdd(WAdd(WAdd(RotL(s[1], 5), Sha1F(t, s[2], s[3], s[4])),
                WAdd(s[5], Sha1K(t))), w[t + 1]),
      s[1], RotL(s[2], 30), s[3], s[4]>>

\* the rounds t..u-1 on the working state s, one half of them and then the
\* other
RECURSIVE Sha1Rounds(_, _, _, _)
Sha1Rounds(t, u, s, w) ==
    IF u = t + 1 THEN Sha1Round(t, s, w)
    ELSE LET v == Sha1Rounds(t, (t + u) \div 2, s, w)
         IN  IF Len(v) = Len(s)
             THEN Sha1Rounds((t + u) \div 2, u, v, w) ELSE v

\* the compression of one block into the chaining value h
Sha1Compress(h, block) ==
    LET s == Sha1Rounds(0, 80, h, Sha1Schedule(block, 64))
    IN  <<WAdd(h[1], s[1]), WAdd(h[2], s[2]), WAdd(h[3], s[3]),
          WAdd(h[4], s[4]), WAdd(h[5], s[5])>>

RECURSIVE Sha1Blocks(_, _, _)
Sha1Blocks(h, p, k) ==
    IF 64 * k >= Len(p) THEN h
    ELSE Sha1Blocks(Sha1Compress(h, BlockWords(p, k)), p, k + 1)

Sha1Init ==
    <<<<26437, 8961>>, <<61389, 43913>>, <<39098, 56574>>,
      <<4146, 21622>>, <<50130, 57840>>>>

\* hashlib.sha1(m).digest(): twenty bytes
sha1(m) ==
    LET h == Sha1Blocks(Sha1Init, Sha1Pad(m), 0)
    IN  [i \in 1..20 |->
            LET half == h[(i + 3) \div 4][((i - 1) % 4) \div 2 + 1]
            IN  IF i % 2 = 1 THEN half \div 256 ELSE half % 256]

\* hmac.new(key, msg, hashlib.sha1).digest()
hmac_new(key, msg) ==
    LET k0 == IF Len(key) > 64 THEN sha1(key) ELSE key
        k == k0 \o ZeroBytes(64 - Len(k0))
        ipad == [i \in 1..64 |-> BitXor(k[i], 54)]
        opad == [i \in 1..64 |-> BitXor(k[i], 92)]
    IN  sha1(opad \o sha1(ipad \o msg))

\* hexdigest(): two lower-case hexadecimal digits for each byte
HexDigit(d) ==
    CASE d = 0 -> "0" [] d = 1 -> "1" [] d = 2 -> "2" [] d = 3 -> "3"
      [] d = 4 -> "4" [] d = 5 -> "5" [] d = 6 -> "6" [] d = 7 -> "7"
      [] d = 8 -> "8" [] d = 9 -> "9" [] d = 10 -> "a" [] d = 11 -> "b"
      [] d = 12 -> "c" [] d = 13 -> "d" [] d = 14 -> "e" [] d = 15 -> "f"

RECURSIVE hexdigest(_)
hexdigest(bytes) ==
    IF bytes = <<>> THEN ""
    ELSE HexDigit(Head(bytes) \div 16) \o HexDigit(Head(bytes) % 16)
           \o hexdigest(Tail(bytes))

\* the exception str.encode raises for a character the encoding has no bytes
\* for, as a value that no byte string equals
UnicodeEncodeError == <<-1>>

\* the cp1250 code page above ASCII: the byte of the character c
Cp1250Char(c) ==
    CASE c = 8364 -> <<128>> [] c = 8218 -> <<130>> [] c = 8222 -> <<132>> [] c = 8230 -> <<133>>
      [] c = 8224 -> <<134>> [] c = 8225 -> <<135>> [] c = 8240 -> <<137>> [] c = 352 -> <<138>>
      [] c = 8249 -> <<139>> [] c = 346 -> <<140>> [] c = 356 -> <<141>> [] c = 381 -> <<142>>
      [] c = 377 -> <<143>> [] c = 8216 -> <<145>> [] c = 8217 -> <<146>> [] c = 8220 -> <<147>>
      [] c = 8221 -> <<148>> [] c = 8226 -> <<149>> [] c = 8211 -> <<150>> [] c = 8212 -> <<151>>
      [] c = 8482 -> <<153>> [] c = 353 -> <<154>> [] c = 8250 -> <<155>> [] c = 347 -> <<156>>
      [] c = 357 -> <<157>> [] c = 382 -> <<158>> [] c = 378 -> <<159>> [] c = 160 -> <<160>>
      [] c = 711 -> <<161>> [] c = 728 -> <<162>> [] c = 321 -> <<163>> [] c = 164 -> <<164>>
      [] c = 260 -> <<165>> [] c = 166 -> <<166>> [] c = 167 -> <<167>> [] c = 168 -> <<168>>
      [] c = 169 -> <<169>> [] c = 350 -> <<170>> [] c = 171 -> <<171>> [] c = 172 -> <<172>>
      [] c = 173 -> <<173>> [] c = 174 -> <<174>> [] c = 379 -> <<175>> [] c = 176 -> <<176>>
      [] c = 177 -> <<177>> [] c = 731 -> <<178>> [] c = 322 -> <<179>> [] c = 180 -> <<180>>
      [] c = 181 -> <<181>> [] c = 182 -> <<182>> [] c = 183 -> <<183>> [] c = 184 -> <<184>>
      [] c = 261 -> <<185>> [] c = 351 -> <<186>> [] c = 187 -> <<187>> [] c = 317 -> <<188>>
      [] c = 733 -> <<189>> [] c = 318 -> <<190>> [] c = 380 -> <<191>> [] c = 340 -> <<192>>
      [] c = 193 -> <<193>> [] c = 194 -> <<194>> [] c = 258 -> <<195>> [] c = 196 -> <<196>>
      [] c = 313 -> <<197>> [] c = 262 -> <<198>> [] c = 199 -> <<199>> [] c = 268 -> <<200>>
      [] c = 201 -> <<201>> [] c = 280 -> <<202>> [] c = 203 -> <<203>> [] c = 282 -> <<204>>
      [] c = 205 -> <<205>> [] c = 206 -> <<206>> [] c = 270 -> <<207>> [] c = 272 -> <<208>>
      [] c = 323 -> <<209>> [] c = 327 -> <<210>> [] c = 211 -> <<211>> [] c = 212 -> <<212>>
      [] c = 336 -> <<213>> [] c = 214 -> <<214>> [] c = 215 -> <<215>> [] c = 344 -> <<216>>
      [] c = 366 -> <<217>> [] c = 218 -> <<218>> [] c = 368 -> <<219>> [] c = 220 -> <<220>>
      [] c = 221 -> <<221>> [] c = 354 -> <<222>> [] c = 223 -> <<223>> [] c = 341 -> <<224>>
      [] c = 225 -> <<225>> [] c = 226 -> <<226>> [] c = 259 -> <<227>> [] c = 228 -> <<228>>
      [] c = 314 -> <<229>> [] c = 263 -> <<230>> [] c = 231 -> <<231>> [] c = 269 -> <<232>>
      [] c = 233 -> <<233>> [] c = 281 -> <<234>> [] c = 235 -> <<235>> [] c = 283 -> <<236>>
      [] c = 237 -> <<237>> [] c = 238 -> <<238>> [] c = 271 -> <<239>> [] c = 273 -> <<240>>
      [] c = 324 -> <<241>> [] c = 328 -> <<242>> [] c = 243 -> <<243>> [] c = 244 -> <<244>>
      [] c = 337 -> <<245>> [] c = 246 -> <<246>> [] c = 247 -> <<247>> [] c = 345 -> <<248>>
      [] c = 367 -> <<249>> [] c = 250 -> <<250>> [] c = 369 -> <<251>> [] c = 252 -> <<252>>
      [] c = 253 -> <<253>> [] c = 355 -> <<254>> [] c = 729 -> <<255>>
      [] OTHER -> UnicodeEncodeError

\* str.encode(encoding) of one character, given by its code point: utf-8 has
\* one to four bytes for a character and none for a surrogate (U+D800 to
\* U+DFFF), cp1250 one byte for the characters of its code page
EncodeChar(c, encoding) ==
    IF c < 128 THEN <<c>>
    ELSE IF encoding = "utf-8"
    THEN IF c < 2048 THEN <<192 + (c \div 64), 128 + (c % 64)>>
         ELSE IF c >= 55296 /\ c <= 57343 THEN UnicodeEncodeError
         ELSE IF c < 65536
         THEN <<224 + (c \div 4096), 128 + ((c \div 64) % 64), 128 + (c % 64)>>
         ELSE <<240 + (c \div 262144), 128 + ((c \div 4096) % 64),
                128 + ((c \div 64) % 64), 128 + (c % 64)>>
    ELSE Cp1250Char(c)

\* str.encode(encoding): the bytes of the characters in order, or the
\* exception when one of them cannot be encoded
RECURSIVE encode(_, _)
encode(chars, encoding) ==
    IF chars = <<>> THEN <<>>
    ELSE LET head == EncodeChar(Head(chars), encoding)
             rest == encode(Tail(chars), encoding)
         IN  IF head = UnicodeEncodeError \/ rest = UnicodeEncodeError
             THEN UnicodeEncodeError
             ELSE head \o rest

\* hmac.compare_digest of two ASCII strings
compare_digest(a, b) == a = b

\* webhook_verify_signature comparing the bare digest
webhook_verify_signature_bare(data, signature, secret, encoding) ==
    LET key == encode(secret, encoding)
    IN  IF key = UnicodeEncodeError THEN UnicodeEncodeError
        ELSE compare_digest(hexdigest(hmac_new(key, data)), signature)

\* GitHub.webhook_verify_signature
webhook_verify_signature(data, signature, secret, encoding) ==
    LET key == encode(secret, encoding)
    IN  IF key = UnicodeEncodeError THEN UnicodeEncodeError
        ELSE compare_digest("sha1=" \o hexdigest(hmac_new(key, data)), signature)

\* the cases of test_verify_webhook_signature_correct; a text is the sequence
\* of the code points of its characters
TestVectors ==
    <<
      [data |-> encode(<<123, 34, 100, 97, 116, 97, 34, 58, 32, 34, 116, 104, 105, 115, 68, 97, 116, 97, 34, 125>>,
                       "utf-8"),
       signature |-> "sha1=ff00f668ad2b48568d5c72c01bd9b3b3c12032d6",
       secret |-> <<107, 101, 121, 49>>, encoding |-> "utf-8"],
      [data |-> encode(<<115, 111, 109, 101, 77, 111, 114, 101, 68, 97, 116, 97, 65, 115, 85, 84, 70, 56, 83, 116, 114, 105, 110, 103>>,
                       "utf-8"),
       signature |-> "sha1=7badf000d5b4eedfc0f40e7fe29c3f660849e081",
       secret |-> <<107, 101, 121, 49>>, encoding |-> "utf-8"],
      [data |-> encode(<<123, 34, 100, 97, 116, 97, 34, 58, 32, 34, 116, 104, 105, 115, 68, 97, 116, 97, 34, 125>>,
                       "utf-8"),
       signature |-> "sha1=054ffbba526d7e94e1c9f99b6b33993dbd39b6c3",
       secret |-> <<107, 101, 121, 50>>, encoding |-> "utf-8"],
      [data |-> encode(<<115, 111, 109, 101, 77, 111, 114, 101, 68, 97, 116, 97, 65, 115, 85, 84, 70, 56, 83, 116, 114, 105, 110, 103>>,
                       "utf-8"),
       signature |-> "sha1=467a48608419b56e5ada01496baf4b12ef632304",
       secret |-> <<107, 101, 121, 50>>, encoding |-> "utf-8"],
      [data |-> encode(<<>>,
                       "utf-8"),
       signature |-> "sha1=94a32c46d6a6ea7b9af8d0a4d134a9028d6e3124",
       secret |-> <<107, 101, 121, 50>>, encoding |-> "utf-8"],
      [data |-> encode(<<115, 111, 109, 101, 77, 111, 114, 101, 68, 97, 116, 97, 65, 115, 67, 80, 49, 50, 53, 48, 83, 116, 114, 105, 110, 103>>,
                       "cp1250"),
       signature |-> "sha1=993fc6ccf9fa1cfd650825d886d5343549448e52",
       secret |-> <<107, 101, 121, 49>>, encoding |-> "cp1250"],
      [data |-> encode(<<123, 34, 100, 97, 116, 97, 34, 58, 32, 34, 116, 104, 105, 115, 68, 97, 116, 97, 34, 125>>,
                       "cp1250"),
       signature |-> "sha1=054ffbba526d7e94e1c9f99b6b33993dbd39b6c3",
       secret |-> <<107, 101, 121, 50>>, encoding |-> "cp1250"]
    >>

\* one byte b altered: its lowest or its highest bit flipped
AlteredBytes(b) == {BitXor(b, 1), BitXor(b, 128)}

\* one character c of the secret altered: a bit flipped, or in its place
\* the letter s with caron (two bytes in utf-8, one in cp1250) or U+1F600
\* (four bytes in utf-8, none in cp1250)
AlteredChars(c) == {BitXor(c, 1), BitXor(c, 32), 353, 128512}

\* the byte strings that differ from d in one place
AlterData(d) ==
    UNION {{[d EXCEPT ![i] = b] : b \in AlteredBytes(d[i])} : i \in 1..Len(d)}

\* the secrets that differ from k in one place
AlterSecret(k) ==
    UNION {{[k EXCEPT ![i] = c] : c \in AlteredChars(k[i])} : i \in 1..Len(k)}

\* the signatures presented with an unaltered request: those of the test,
\* no signature, a digest without its prefix, a digest with its last digit
\* altered
Signatures ==
    {TestVectors[k].signature : k \in 1..Len(TestVectors)} \cup
    {"", "ff00f668ad2b48568d5c72c01bd9b3b3c12032d6",
     "sha1=ff00f668ad2b48568d5c72c01bd9b3b3c12032d7"}

VARIABLES
    s_vector,      \* the test case the arguments are made from
    s_data,        \* the argument data: the raw body
    s_signature,   \* the argument signature: the header X-Hub-Signature
    s_secret,      \* the argument secret
    s_encoding,    \* the argument encoding of the test's call
    s_pc,          \* "request"; after the test's call "verified" or "raised";
                   \* after hook_accept's "passed", "aborted" or "error"
    s_result       \* what webhook_verify_signature returned

sigvars == <<s_vector, s_data, s_signature, s_secret, s_encoding, s_pc, s_result>>

SigInit ==
    \E k \in 1..Len(TestVectors) :
        /\ s_vector = k
        /\ s_encoding = TestVectors[k].encoding
        /\ s_pc = "request"
        /\ s_result = FALSE
        /\ \/ /\ s_data = TestVectors[k].data
              /\ s_secret = TestVectors[k].secret
              /\ s_signature \in Signatures
           \/ /\ s_data \in AlterData(TestVectors[k].data)
              /\ s_secret = TestVectors[k].secret
              /\ s_signature = TestVectors[k].signature
           \/ /\ s_data = TestVectors[k].data
              /\ s_secret \in AlterSecret(TestVectors[k].secret)
              /\ s_signature = TestVectors[k].signature

\* no request is being verified
SigIdle ==
    /\ s_vector = 0 /\ s_data = <<>> /\ s_signature = "" /\ s_secret = <<>>
    /\ s_encoding = "utf-8" /\ s_pc = "idle" /\ s_result = FALSE

\* hook_accept: webhook_verify_signature is called with three arguments, so
\* that the secret is encoded in utf-8 whatever the encoding of the test case;
\* abort(401) when it returns false; a secret that cannot be encoded ends
\* the request with the UnicodeEncodeError
SigAccept ==
    /\ s_pc = "request"
    /\ LET r == webhook_verify_signature(s_data, s_signature, s_secret, "utf-8")
       IN  IF encode(s_secret, "utf-8") = UnicodeEncodeError
           THEN s_pc' = "error" /\ UNCHANGED s_result
           ELSE /\ s_pc' = IF r THEN "passed" ELSE "aborted"
                /\ s_result' = r
    /\ UNCHANGED <<s_vector, s_data, s_signature, s_secret, s_encoding>>

\* the call of the test: webhook_verify_signature(data, signature, secret,
\* encoding) with the encoding of the test case
SigVerify ==
    /\ s_pc = "request"
    /\ LET r == webhook_verify_signature(s_data, s_signature, s_secret, s_encoding)
       IN  IF encode(s_secret, s_encoding) = UnicodeEncodeError
           THEN s_pc' = "raised" /\ UNCHANGED s_result
           ELSE s_pc' = "verified" /\ s_result' = r
    /\ UNCHANGED <<s_vector, s_data, s_signature, s_secret, s_encoding>>

(***************************************************************************)
(* The specifications                                                      *)
(***************************************************************************)
vars == <<diffvars, runvars, relayvars, apivars, sigvars>>

\* the reconciliation is not in use
RunIdle ==
    /\ remote = [r \in RunRepos |-> <<>>]
    /\ slugs = <<>> /\ labels_specs = <<>> /\ mode = "update" /\ dry_run = FALSE
    /\ pc = "idle" /\ idx = 1 /\ plan = EmptyPlan /\ todo = <<>>
    /\ printer_repos = {} /\ printer_errors = 0
    /\ events = <<>> /\ calls = <<>> /\ planned = <<>>
    /\ ret = DEFAULT_SUCCESS_RETURN /\ run = "none" /\ failures = 0
    /\ first_calls = <<>> /\ first_events = <<>>

DiffNext ==
    \/ DiffUpdate /\ UNCHANGED <<runvars, relayvars, apivars, sigvars>>
    \/ DiffReplace /\ UNCHANGED <<runvars, relayvars, apivars, sigvars>>

DiffSpecInit == DiffInit /\ RunIdle /\ RelayInit /\ ApiIdle /\ SigIdle

SpecDiff == DiffSpecInit /\ [][DiffNext]_vars

RunNext ==
    \/ RunStart /\ UNCHANGED <<diffvars, relayvars, apivars, sigvars>>
    \/ RunAgain /\ UNCHANGED <<diffvars, relayvars, apivars, sigvars>>
    \/ RunForReal /\ UNCHANGED <<diffvars, relayvars, apivars, sigvars>>
    \/ RunOneFetched /\ UNCHANGED <<diffvars, relayvars, apivars, sigvars>>
    \/ RunOneFetchFailed /\ UNCHANGED <<diffvars, relayvars, apivars, sigvars>>
    \/ ProcessOk /\ UNCHANGED <<diffvars, relayvars, apivars, sigvars>>
    \/ ProcessErr /\ UNCHANGED <<diffvars, relayvars, apivars, sigvars>>
    \/ ProcessDry /\ UNCHANGED <<diffvars, relayvars, apivars, sigvars>>
    \/ RunReturn /\ UNCHANGED <<diffvars, relayvars, apivars, sigvars>>

RunSpecInit == RunInit /\ DiffIdle /\ RelayInit /\ ApiIdle /\ SigIdle

SpecRun == RunSpecInit /\ [][RunNext]_vars

\* the clock advances by two ticks, or by one tick less than the window:
\* with three ticks to the second, by 2/3 s or by 9 2/3 s, so that the
\* clock takes values that are not whole seconds before and after either
Deltas == {2, WindowTicks - 1}

Next ==
    \/ \E d \in Deltas : Advance(d) /\ UNCHANGED <<diffvars, runvars, apivars, sigvars>>
    \/ \E h \in Serial, q \in Requests :
           HookAccept(h, q) /\ UNCHANGED <<diffvars, runvars, apivars, sigvars>>
    \/ \E h \in Serial : CleanupNext(h) /\ UNCHANGED <<diffvars, runvars, apivars, sigvars>>
    \/ \E h \in Serial : CleanupLoad(h) /\ UNCHANGED <<diffvars, runvars, apivars, sigvars>>
    \/ \E h \in Serial : CleanupRead(h) /\ UNCHANGED <<diffvars, runvars, apivars, sigvars>>
    \/ \E h \in Serial : CleanupStore(h) /\ UNCHANGED <<diffvars, runvars, apivars, sigvars>>
    \/ \E h \in Serial : Build(h) /\ UNCHANGED <<diffvars, runvars, apivars, sigvars>>
    \/ \E h \in Serial : Lookup(h) /\ UNCHANGED <<diffvars, runvars, apivars, sigvars>>
    \/ \E h \in Serial : LookupRead(h) /\ UNCHANGED <<diffvars, runvars, apivars, sigvars>>
    \/ \E h \in Serial : RemoveLoad(h) /\ UNCHANGED <<diffvars, runvars, apivars, sigvars>>
    \/ \E h \in Serial : RemoveRead(h) /\ UNCHANGED <<diffvars, runvars, apivars, sigvars>>
    \/ \E h \in Serial : RemoveEcho(h) /\ UNCHANGED <<diffvars, runvars, apivars, sigvars>>
    \/ \E h \in Serial : RelayNext(h) /\ UNCHANGED <<diffvars, runvars, apivars, sigvars>>
    \/ \E h \in Serial : EnsureTest(h) /\ UNCHANGED <<diffvars, runvars, apivars, sigvars>>
    \/ \E h \in Serial : EnsureSet(h) /\ UNCHANGED <<diffvars, runvars, apivars, sigvars>>
    \/ \E h \in Serial : RegisterLoad(h) /\ UNCHANGED <<diffvars, runvars, apivars, sigvars>>
    \/ \E h \in Serial : Register(h) /\ UNCHANGED <<diffvars, runvars, apivars, sigvars>>
    \/ \E h \in Serial, ok \in BOOLEAN :
           Call(h, ok) /\ UNCHANGED <<diffvars, runvars, apivars, sigvars>>

Init == RelayInit /\ DiffIdle /\ RunIdle /\ ApiIdle /\ SigIdle

\* the relay, handling one request at a time
Spec == Init /\ [][Next]_vars

\* the notifications of the concurrent relay: a label is created
ConcRequests == {q \in LabelRequests : q.action = "created"}

\* the server runs its handlers as threads: their steps interleave (the
\* requests arrive within one tick of the clock)
ConcNext ==
    \/ \E h \in Handlers, q \in ConcRequests :
           HookAccept(h, q) /\ UNCHANGED <<diffvars, runvars, apivars, sigvars>>
    \/ \E h \in Handlers : CleanupNext(h) /\ UNCHANGED <<diffvars, runvars, apivars, sigvars>>
    \/ \E h \in Handlers : CleanupLoad(h) /\ UNCHANGED <<diffvars, runvars, apivars, sigvars>>
    \/ \E h \in Handlers : CleanupRead(h) /\ UNCHANGED <<diffvars, runvars, apivars, sigvars>>
    \/ \E h \in Handlers : CleanupStore(h) /\ UNCHANGED <<diffvars, runvars, apivars, sigvars>>
    \/ \E h \in Handlers : Build(h) /\ UNCHANGED <<diffvars, runvars, apivars, sigvars>>
    \/ \E h \in Handlers : Lookup(h) /\ UNCHANGED <<diffvars, runvars, apivars, sigvars>>
    \/ \E h \in Handlers : LookupRead(h) /\ UNCHANGED <<diffvars, runvars, apivars, sigvars>>
    \/ \E h \in Handlers : RemoveLoad(h) /\ UNCHANGED <<diffvars, runvars, apivars, sigvars>>
    \/ \E h \in Handlers : RemoveRead(h) /\ UNCHANGED <<diffvars, runvars, apivars, sigvars>>
    \/ \E h \in Handlers : RemoveEcho(h) /\ UNCHANGED <<diffvars, runvars, apivars, sigvars>>
    \/ \E h \in Handlers : RelayNext(h) /\ UNCHANGED <<diffvars, runvars, apivars, sigvars>>
    \/ \E h \in Handlers : EnsureTest(h) /\ UNCHANGED <<diffvars, runvars, apivars, sigvars>>
    \/ \E h \in Handlers : EnsureSet(h) /\ UNCHANGED <<diffvars, runvars, apivars, sigvars>>
    \/ \E h \in Handlers : RegisterLoad(h) /\ UNCHANGED <<diffvars, runvars, apivars, sigvars>>
    \/ \E h \in Handlers : Register(h) /\ UNCHANGED <<diffvars, runvars, apivars, sigvars>>
    \/ \E h \in Handlers, ok \in BOOLEAN :
           Call(h, ok) /\ UNCHANGED <<diffvars, runvars, apivars, sigvars>>

ConcInit == RelayInit /\ DiffIdle /\ RunIdle /\ ApiIdle /\ SigIdle

\* the relay, handling requests concurrently, no record expiring meanwhile
SpecConc == ConcInit /\ [][ConcNext]_vars

\* what the header X-Hub-Signature of a request can be: the signature of the
\* body, another ASCII string, or a string with a character that is not ASCII
SignatureHeaders ==
    {[sig_ascii |-> TRUE, sig_ok |-> TRUE], [sig_ascii |-> TRUE, sig_ok |-> FALSE],
     [sig_ascii |-> FALSE, sig_ok |-> FALSE]}

\* the requests at the gate: a label notification of two of the members, one
\* of a repository that is not configured, a ping and an event of another kind,
\* each with every kind of signature header; and the requests with these
\* headers whose body does not parse as JSON, so that it names no repository
\* and no label
GateRequests ==
    {[json_ok |-> TRUE, sig_ascii |-> g.sig_ascii, sig_ok |-> g.sig_ok,
      event |-> k.event, repo |-> k.repo, action |-> k.action,
      name |-> k.name, color |-> k.color, from |-> None] :
        g \in SignatureHeaders,
        k \in {[event |-> "label", repo |-> "A", action |-> "created",
                name |-> "x", color |-> "c0ffee"],
               [event |-> "label", repo |-> "B", action |-> "created",
                name |-> "x", color |-> "c0ffee"],
               [event |-> "label", repo |-> Stranger, action |-> "created",
                name |-> "x", color |-> "c0ffee"],
               [event |-> "ping", repo |-> "A", action |-> None,
                name |-> None, color |-> None],
               [event |-> "push", repo |-> "A", action |-> None,
                name |-> None, color |-> None]}}
    \cup
    {[json_ok |-> FALSE, sig_ascii |-> g.sig_ascii, sig_ok |-> g.sig_ok,
      event |-> e, repo |-> None, action |-> None,
      name |-> None, color |-> None, from |-> None] :
        g \in SignatureHeaders, e \in {"label", "ping", "push"}}

GateNext ==
    \/ \E d \in Deltas : Advance(d) /\ UNCHANGED <<diffvars, runvars, apivars, sigvars>>
    \/ \E h \in Serial, q \in GateRequests :
           HookAccept(h, q) /\ UNCHANGED <<diffvars, runvars, apivars, sigvars>>
    \/ \E h \in Serial : CleanupNext(h) /\ UNCHANGED <<diffvars, runvars, apivars, sigvars>>
    \/ \E h \in Serial : CleanupLoad(h) /\ UNCHANGED <<diffvars, runvars, apivars, sigvars>>
    \/ \E h \in Serial : CleanupRead(h) /\ UNCHANGED <<diffvars, runvars, apivars, sigvars>>
    \/ \E h \in Serial : CleanupStore(h) /\ UNCHANGED <<diffvars, runvars, apivars, sigvars>>
    \/ \E h \in Serial : Build(h) /\ UNCHANGED <<diffvars, runvars, apivars, sigvars>>
    \/ \E h \in Serial : Lookup(h) /\ UNCHANGED <<diffvars, runvars, apivars, sigvars>>
    \/ \E h \in Serial : LookupRead(h) /\ UNCHANGED <<diffvars, runvars, apivars, sigvars>>
    \/ \E h \in Serial : RemoveLoad(h) /\ UNCHANGED <<diffvars, runvars, apivars, sigvars>>
    \/ \E h \in Serial : RemoveRead(h) /\ UNCHANGED <<diffvars, runvars, apivars, sigvars>>
    \/ \E h \in Serial : RemoveEcho(h) /\ UNCHANGED <<diffvars, runvars, apivars, sigvars>>
    \/ \E h \in Serial : RelayNext(h) /\ UNCHANGED <<diffvars, runvars, apivars, sigvars>>
    \/ \E h \in Serial : EnsureTest(h) /\ UNCHANGED <<diffvars, runvars, apivars, sigvars>>
    \/ \E h \in Serial : EnsureSet(h) /\ UNCHANGED <<diffvars, runvars, apivars, sigvars>>
    \/ \E h \in Serial : RegisterLoad(h) /\ UNCHANGED <<diffvars, runvars, apivars, sigvars>>
    \/ \E h \in Serial : Register(h) /\ UNCHANGED <<diffvars, runvars, apivars, sigvars>>
    \/ \E h \in Serial, ok \in BOOLEAN :
           Call(h, ok) /\ UNCHANGED <<diffvars, runvars, apivars, sigvars>>

GateInit == RelayInit /\ DiffIdle /\ RunIdle /\ ApiIdle /\ SigIdle

\* the relay, one request at a time, receiving signed and unsigned requests
\* of every kind
SpecGate == GateInit /\ [][GateNext]_vars

ApiNext ==
    \/ ApiCreate /\ UNCHANGED <<diffvars, runvars, relayvars, sigvars>>
    \/ ApiUpdate /\ UNCHANGED <<diffvars, runvars, relayvars, sigvars>>
    \/ ApiDelete /\ UNCHANGED <<diffvars, runvars, relayvars, sigvars>>
    \/ ApiList /\ UNCHANGED <<diffvars, runvars, relayvars, sigvars>>
    \/ ApiListRepositories /\ UNCHANGED <<diffvars, runvars, relayvars, sigvars>>

ApiSpecInit == ApiInit /\ DiffIdle /\ RunIdle /\ RelayInit /\ SigIdle

\* one call of the client on each response
SpecApi == ApiSpecInit /\ [][ApiNext]_vars

SigNext ==
    \/ SigVerify /\ UNCHANGED <<diffvars, runvars, relayvars, apivars>>
    \/ SigAccept /\ UNCHANGED <<diffvars, runvars, relayvars, apivars>>

SigSpecInit == SigInit /\ DiffIdle /\ RunIdle /\ RelayInit /\ ApiIdle

\* one call of webhook_verify_signature, by the test or by hook_accept
SpecSig == SigSpecInit /\ [][SigNext]_vars

\* the label changes of the notifications about edits: label x is created,
\* deleted, given the color c0ffee, renamed to y, renamed to z
EditPayloads == {
    [action |-> "created", name |-> "x", color |-> "c0ffee", from |-> None],
    [action |-> "deleted", name |-> "x", color |-> "c0ffee", from |-> None],
    [action |-> "edited",  name |-> "x", color |-> "c0ffee", from |-> None],
    [action |-> "edited",  name |-> "y", color |-> "c0ffee", from |-> "x"],
    [action |-> "edited",  name |-> "z", color |-> "c0ffee", from |-> "x"] }

\* signed label notifications of two of the members
EditRequests ==
    {[json_ok |-> TRUE, sig_ascii |-> TRUE, sig_ok |-> TRUE, event |-> "label", repo |-> r, action |-> p.action,
      name |-> p.name, color |-> p.color, from |-> p.from] :
        r \in {"A", "B"}, p \in EditPayloads}

EditNext ==
    \/ \E h \in Serial, q \in EditRequests :
           HookAccept(h, q) /\ UNCHANGED <<diffvars, runvars, apivars, sigvars>>
    \/ \E h \in Serial : CleanupNext(h) /\ UNCHANGED <<diffvars, runvars, apivars, sigvars>>
    \/ \E h \in Serial : CleanupLoad(h) /\ UNCHANGED <<diffvars, runvars, apivars, sigvars>>
    \/ \E h \in Serial : CleanupRead(h) /\ UNCHANGED <<diffvars, runvars, apivars, sigvars>>
    \/ \E h \in Serial : CleanupStore(h) /\ UNCHANGED <<diffvars, runvars, apivars, sigvars>>
    \/ \E h \in Serial : Build(h) /\ UNCHANGED <<diffvars, runvars, apivars, sigvars>>
    \/ \E h \in Serial : Lookup(h) /\ UNCHANGED <<diffvars, runvars, apivars, sigvars>>
    \/ \E h \in Serial : LookupRead(h) /\ UNCHANGED <<diffvars, runvars, apivars, sigvars>>
    \/ \E h \in Serial : RemoveLoad(h) /\ UNCHANGED <<diffvars, runvars, apivars, sigvars>>
    \/ \E h \in Serial : RemoveRead(h) /\ UNCHANGED <<diffvars, runvars, apivars, sigvars>>
    \/ \E h \in Serial : RemoveEcho(h) /\ UNCHANGED <<diffvars, runvars, apivars, sigvars>>
    \/ \E h \in Serial : RelayNext(h) /\ UNCHANGED <<diffvars, runvars, apivars, sigvars>>
    \/ \E h \in Serial : EnsureTest(h) /\ UNCHANGED <<diffvars, runvars, apivars, sigvars>>
    \/ \E h \in Serial : EnsureSet(h) /\ UNCHANGED <<diffvars, runvars, apivars, sigvars>>
    \/ \E h \in Serial : RegisterLoad(h) /\ UNCHANGED <<diffvars, runvars, apivars, sigvars>>
    \/ \E h \in Serial : Register(h) /\ UNCHANGED <<diffvars, runvars, apivars, sigvars>>
    \/ \E h \in Serial, ok \in BOOLEAN :
           Call(h, ok) /\ UNCHANGED <<diffvars, runvars, apivars, sigvars>>

EditInit == RelayInit /\ DiffIdle /\ RunIdle /\ ApiIdle /\ SigIdle

\* the relay, one request at a time, receiving notifications of edits within
\* one tick of the clock
SpecEdit == EditInit /\ [][EditNext]_vars

(***************************************************************************)
(* Properties of the diff (SpecDiff)                                       *)
(***************************************************************************)
\* names pairwise distinct ignoring letter case (what GitHub enforces for the
\* labels of one repository)
CiUnique(d) == \A i, j \in 1..Len(d) : Lower(d[i].name) = Lower(d[j].name) => i = j

\* the entries of plan dict d whose value is (n, c)
WithValue(d, n, c) == {i \in 1..Len(d) : d[i].name = n /\ d[i].color = c}

\* desired entry i is a case-only rename of current label j
CaseOnlyRename(i, j) ==
    /\ Lower(d_specs[i].name) = Lower(d_labels[j].name)
    /\ d_specs[i].name # d_labels[j].name

\* C3 (as claimed): under either policy a desired entry whose name differs
\* only in letter case from an existing label gives exactly one toUpdate
\* entry, keyed by the existing name with value (new name, color), and no
\* toCreate and no toDelete entry for that label.  Stated for current and
\* desired sets whose names are distinct ignoring case.
C3_CaseOnlyRename ==
    (d_mode # "none" /\ CiUnique(d_labels) /\ CiUnique(d_specs)) =>
        \A i \in 1..Len(d_specs), j \in 1..Len(d_labels) :
            CaseOnlyRename(i, j) =>
                /\ Cardinality(WithValue(d_plan.update, d_specs[i].name,
                                         d_specs[i].color)) = 1
                /\ HasKey(d_plan.update, d_labels[j].name)
                /\ Get(d_plan.update, d_labels[j].name).name = d_specs[i].name
                /\ Get(d_plan.update, d_labels[j].name).color = d_specs[i].color
                /\ ~HasKey(d_plan.create, d_specs[i].name)
                /\ ~HasKey(d_plan.create, d_labels[j].name)
                /\ ~HasKey(d_plan.delete, d_specs[i].name)
                /\ ~HasKey(d_plan.delete, d_labels[j].name)

\* C4 (as claimed): the key sets of toCreate, toUpdate and toDelete are
\* pairwise disjoint, for both policies.  Stated for current and desired
\* sets whose names are distinct ignoring case.
C4_PlanDisjoint ==
    (d_mode # "none" /\ CiUnique(d_labels) /\ CiUnique(d_specs)) =>
        /\ Keys(d_plan.create) \cap Keys(d_plan.update) = {}
        /\ Keys(d_plan.create) \cap Keys(d_plan.delete) = {}
        /\ Keys(d_plan.update) \cap Keys(d_plan.delete) = {}

\* desired entry i is already present with identical name and color
AlreadyPresent(i) ==
    /\ HasName(d_labels, d_specs[i].name)
    /\ ColorOf(d_labels, d_specs[i].name) = d_specs[i].color

\* desired entry i is the value of exactly one entry of toCreate or toUpdate
CoveredOnce(i) ==
    Cardinality(WithValue(d_plan.create, d_specs[i].name, d_specs[i].color))
  + Cardinality(WithValue(d_plan.update, d_specs[i].name, d_specs[i].color)) = 1

\* C5 (as claimed): for every current label set and every desired
\* specification, each desired (name, color) that is not already present
\* with identical name and color is the value of exactly one entry of
\* toCreate or toUpdate.
C5_CoverageAnySpec ==
    d_mode # "none" =>
        \A i \in 1..Len(d_specs) : ~AlreadyPresent(i) => CoveredOnce(i)

\* C5 (amended): the same, for every current label set and every desired
\* specification whose names are pairwise distinct ignoring letter case.
C5_Coverage ==
    (d_mode # "none" /\ CiUnique(d_specs)) =>
        \A i \in 1..Len(d_specs) : ~AlreadyPresent(i) => CoveredOnce(i)

\* a plan with one created and one renamed entry was computed
C5_Witness ==
    /\ d_mode = "update" /\ CiUnique(d_specs)
    /\ Len(d_plan.create) = 1 /\ Len(d_plan.update) = 1
    /\ \E i \in 1..Len(d_specs), j \in 1..Len(d_labels) : CaseOnlyRename(i, j)

\* C6: replace's toDelete holds exactly one entry name -> (name, color) per
\* current label whose exact name is absent from the desired set and no
\* entry for a name of the desired set; its toCreate and toUpdate are those
\* of the update policy; update's toDelete is empty.
C6_ReplaceVsUpdate ==
    /\ d_mode = "replace" =>
          /\ \A j \in 1..Len(d_labels) :
                ~HasName(d_specs, d_labels[j].name) =>
                    /\ Cardinality({k \in 1..Len(d_plan.delete) :
                           d_plan.delete[k].key = d_labels[j].name}) = 1
                    /\ Get(d_plan.delete, d_labels[j].name).name = d_labels[j].name
                    /\ Get(d_plan.delete, d_labels[j].name).color = d_labels[j].color
          /\ \A k \in 1..Len(d_plan.delete) :
                /\ ~HasName(d_specs, d_plan.delete[k].key)
                /\ HasName(d_labels, d_plan.delete[k].key)
          /\ d_plan.create = update_mode(d_labels, d_specs).create
          /\ d_plan.update = update_mode(d_labels, d_specs).update
    /\ d_mode = "update" => d_plan.delete = <<>>

\* a replace plan that deletes one label and keeps another that is desired
C6_Witness ==
    /\ d_mode = "replace" /\ CiUnique(d_labels)
    /\ Len(d_plan.delete) = 1
    /\ \E j \in 1..Len(d_labels) : HasName(d_specs, d_labels[j].name)

(***************************************************************************)
(* Properties of the reconciliation run (SpecRun)                          *)
(***************************************************************************)
IsOp(c) == c.kind # "list"
OpCalls == SelectSeq(calls, IsOp)
OpEvents == SelectSeq(events, LAMBDA e : e.event # "LBL")

\* the first run is over, was a real run, and none of its calls failed
FirstRunClean ==
    /\ run = "second" /\ ~dry_run
    /\ \A i \in 1..Len(first_calls) : first_calls[i].ok

\* this run has planned nothing and made no mutating call
NothingToDo ==
    /\ plan = EmptyPlan /\ planned = <<>> /\ OpCalls = <<>> /\ OpEvents = <<>>

\* C7 (as claimed): for every current label set and desired specification,
\* after one run with the update policy on which every remote call succeeds,
\* a second run with the same specification and policy computes an empty
\* plan and issues no mutating call.
C7_IdempotenceAnySpec ==
    (FirstRunClean /\ mode = "update") => NothingToDo

\* C7 (amended): the same, for every desired specification whose names are
\* pairwise distinct ignoring letter case.
C7_Idempotence ==
    (FirstRunClean /\ mode = "update" /\ CiUnique(labels_specs)) => NothingToDo

\* a second run is over whose first run created one label and updated another
C7_Witness ==
    /\ FirstRunClean /\ mode = "update" /\ CiUnique(labels_specs)
    /\ pc = "done" /\ calls # <<>>
    /\ \E i, j \in 1..Len(first_calls) :
          first_calls[i].kind = "create" /\ first_calls[j].kind = "update"

Rank(kind) ==
    CASE kind = "list" -> 0 [] kind = "create" -> 1
      [] kind = "update" -> 2 [] kind = "delete" -> 3

\* every position of slugs has had its label fetch
AllFetched ==
    \A k \in 1..Len(slugs) :
        \E i \in 1..Len(calls) : calls[i].kind = "list" /\ calls[i].at = k

\* C8: the calls of a run follow the caller's list of repositories, position
\* by position and without reordering; the calls of one position are over
\* before the label fetch of the next; and within one position the fetch
\* comes first, every create before every update, every update before every
\* delete.
C8_ApplyOrder ==
    /\ \A i \in 1..Len(calls) :
          /\ calls[i].at \in 1..Len(slugs)
          /\ calls[i].repo = slugs[calls[i].at]
          /\ calls[i].kind = "list" <=> (i = 1 \/ calls[i - 1].at < calls[i].at)
    /\ \A i, j \in 1..Len(calls) :
          i < j => /\ calls[i].at <= calls[j].at
                   /\ calls[i].at = calls[j].at =>
                          Rank(calls[i].kind) <= Rank(calls[j].kind)
    /\ pc = "done" => AllFetched

\* a run is over that created, updated and deleted at its first repository
\* and went on to a second one
C8_Witness ==
    /\ pc = "done" /\ Len(slugs) = 2
    /\ \E i, j, k \in 1..Len(calls) :
          /\ calls[i].at = 1 /\ calls[i].kind = "create"
          /\ calls[j].at = 1 /\ calls[j].kind = "update"
          /\ calls[k].at = 1 /\ calls[k].kind = "delete"
    /\ \E i \in 1..Len(calls) : calls[i].at = 2 /\ calls[i].kind # "list"

\* C9: in a real run every label operation that was called has exactly one
\* event, an error event exactly when the call failed; and when the run is
\* over every planned operation of every repository has been called, in
\* the plan's order, whichever calls failed, and no repository was skipped.
C9_OperationIsolation ==
    ~dry_run =>
        /\ Len(OpEvents) = Len(OpCalls)
        /\ \A i \in 1..Len(OpCalls) :
              /\ OpEvents[i].event = EventOf(OpCalls[i].kind)
              /\ OpEvents[i].at = OpCalls[i].at
              /\ OpEvents[i].repo = OpCalls[i].repo
              /\ OpEvents[i].name = OpCalls[i].name
              /\ OpEvents[i].color = OpCalls[i].color
              /\ OpEvents[i].result = IF OpCalls[i].ok THEN "SUC" ELSE "ERR"
        /\ Len(OpCalls) <= Len(planned)
        /\ \A i \in 1..Len(OpCalls) :
              /\ planned[i].at = OpCalls[i].at
              /\ planned[i].op.kind = OpCalls[i].kind
              /\ planned[i].op.key = OpCalls[i].key
              /\ planned[i].op.name = OpCalls[i].name
              /\ planned[i].op.color = OpCalls[i].color
        /\ pc = "done" => (Len(OpCalls) = Len(planned) /\ AllFetched)

\* a run is over in which an operation failed, a later operation of the same
\* plan was called, and so was an operation of a later repository
C9_Witness ==
    /\ pc = "done" /\ ~dry_run
    /\ \E i, j, k \in 1..Len(calls) :
          /\ i < j /\ j < k
          /\ IsOp(calls[i]) /\ ~calls[i].ok
          /\ IsOp(calls[j]) /\ calls[j].at = calls[i].at
          /\ IsOp(calls[k]) /\ calls[k].at > calls[i].at

\* C10: a failed label fetch gives exactly one event for that position, an
\* error event of the fetch; no operation is planned or called there; and
\* when the run is over every position of the list has had its fetch.
C10_FetchIsolation ==
    /\ \A i \in 1..Len(calls) :
          (calls[i].kind = "list" /\ ~calls[i].ok) =>
              /\ Cardinality({e \in 1..Len(events) : events[e].at = calls[i].at}) = 1
              /\ \E e \in 1..Len(events) :
                    /\ events[e].at = calls[i].at
                    /\ events[e].event = "LBL" /\ events[e].result = "ERR"
                    /\ events[e].repo = calls[i].repo
              /\ \A j \in 1..Len(calls) : calls[j].at = calls[i].at => j = i
              /\ \A j \in 1..Len(planned) : planned[j].at # calls[i].at
    /\ \A e \in 1..Len(events) :
          events[e].event = "LBL" =>
              \E i \in 1..Len(calls) :
                  calls[i].kind = "list" /\ ~calls[i].ok /\ calls[i].at = events[e].at
    /\ pc = "done" => AllFetched

\* a run is over whose first fetch failed and whose second repository got an
\* operation
C10_Witness ==
    /\ pc = "done" /\ Len(slugs) = 2
    /\ calls[1].kind = "list" /\ ~calls[1].ok
    /\ \E j \in 1..Len(calls) : calls[j].at = 2 /\ IsOp(calls[j]) /\ calls[j].ok

\* some call of this run failed
SomeCallFailed == \E i \in 1..Len(calls) : ~calls[i].ok

\* C11: when a run is over, its return value is the error status 10 if a
\* label fetch or a label operation of the run failed, and the success
\* status 0 if none did.
C11_ResultAggregation ==
    pc = "done" =>
        ret = IF SomeCallFailed THEN DEFAULT_ERROR_RETURN ELSE DEFAULT_SUCCESS_RETURN

\* a run is over that returned 10 and whose only failed call is a label fetch,
\* with successful operations at another repository
C11_Witness ==
    /\ pc = "done" /\ ret = DEFAULT_ERROR_RETURN
    /\ \E i \in 1..Len(calls) : calls[i].kind = "list" /\ ~calls[i].ok
    /\ \A i \in 1..Len(calls) : IsOp(calls[i]) => calls[i].ok
    /\ OpCalls # <<>>

\* C15: in a dry run the only calls on the API client are the label
\* fetches, one per position of the list of repositories and in its order
\* (every position has had its fetch when the run is over), each planned
\* operation gives a DRY event instead of a call, and no step of a dry run
\* changes the labels of any repository.
C15_DryRunNoMutation ==
    /\ [](dry_run =>
            /\ Len(calls) <= Len(slugs)
            /\ \A i \in 1..Len(calls) :
                  /\ calls[i].kind = "list"
                  /\ calls[i].at = i /\ calls[i].repo = slugs[i]
            /\ \A e \in 1..Len(events) : events[e].result \in {"DRY", "ERR"}
            /\ pc = "done" => Len(calls) = Len(slugs))
    /\ [][dry_run' => remote' = remote]_vars

\* a dry run over two repositories is over that planned a create, an update
\* and a delete
C15_Witness ==
    /\ pc = "done" /\ dry_run /\ Len(slugs) = 2
    /\ \E i, j, k \in 1..Len(planned) :
          /\ planned[i].op.kind = "create"
          /\ planned[j].op.kind = "update"
          /\ planned[k].op.kind = "delete"
    /\ Len(events) = Len(planned)

(***************************************************************************)
(* Properties of the relay                                                 *)
(***************************************************************************)
\* handler h is through with a signed label notification of a member
Processed(h) ==
    /\ hpc[h] = "idle" /\ houtcome[h] \notin {"none", "rejected", "error", "ping"}
    /\ hreq[h].event = "label" /\ hreq[h].repo \in MemberSet

\* the members other than r, in the order of self.repos
OthersOf(r) == SelectSeq(Members, LAMBDA m : m # r)

\* the calls of handler h are one call of the notification's kind on each
\* member other than the origin, and nothing else
OneCallOnEachOther(h) ==
    LET others == OthersOf(hreq[h].repo)
    IN  /\ Len(hcalls[h]) = Len(others)
        /\ \A i \in 1..Len(others) :
               hcalls[h][i] = RelayCall(hreq[h], others[i], hcalls[h][i].ok)

\* an equal record was registered for the origin of handler h's request when
\* the request arrived, and the youngest of them is less than 10 seconds old
\* now: the request has been processed within the window
WithinWindow(h) ==
    /\ hcase[h] = "fresh"
    /\ now - harrival[h].youngest < WindowTicks

\* C1: a created notification of a member for which no equal record is
\* registered causes exactly one create_label call on each other member and
\* none on its origin, and a created notification for which an equal record
\* is registered for its origin, and whose processing is over while that
\* record is less than 10 seconds old, is suppressed and causes no call
C1_EchoTermination ==
    \A h \in Handlers :
        (Processed(h) /\ hreq[h].action = "created") =>
            /\ hcase[h] = "none" =>
                   /\ houtcome[h] = "propagated"
                   /\ OneCallOnEachOther(h)
                   /\ \A i \in 1..Len(hcalls[h]) : hcalls[h][i].op = "create"
            /\ WithinWindow(h) =>
                   /\ houtcome[h] = "suppressed"
                   /\ hcalls[h] = <<>>

\* C2: a notification of a member that equals records registered for its
\* origin, all of them 10 seconds old or older when it is processed, is not
\* suppressed: it is propagated, with one call on every other member
C2_SuppressionExpiry ==
    \A h \in Handlers :
        (Processed(h) /\ hcase[h] = "expired") =>
            /\ houtcome[h] = "propagated"
            /\ OneCallOnEachOther(h)

C2_Witness ==
    \E h \in Handlers :
        /\ Processed(h) /\ hcase[h] = "expired"
        /\ houtcome[h] = "propagated"
        /\ Len(hcalls[h]) = Len(Members) - 1

\* the change of handler h is the last record of the list of every member
\* other than the origin, and of no other list
RegisteredForOthers(h) ==
    \A r \in MemberSet :
        r # hreq[h].repo =>
            /\ ignores[r].has /\ ignores[r].list # <<>>
            /\ ignores[r].list[Len(ignores[r].list)] = hchange[h]

\* C12: a label notification of a member that is not suppressed is relayed
\* to every other member whichever of the API calls fail: the expected
\* record is registered for every other member, every other member gets its
\* call, and the response is the empty successful one.
C12_RelayFailureIsolation ==
    \A h \in Handlers :
        (Processed(h) /\ houtcome[h] # "suppressed") =>
            /\ houtcome[h] = "propagated" /\ hresp[h] = 200
            /\ OneCallOnEachOther(h)
            /\ RegisteredForOthers(h)

\* a notification has been relayed, and the calls to both peers failed
C12_Witness ==
    \E h \in Handlers :
        /\ Processed(h) /\ houtcome[h] = "propagated" /\ hresp[h] = 200
        /\ Len(hcalls[h]) = 2
        /\ ~hcalls[h][1].ok /\ ~hcalls[h][2].ok

\* this step is handler h taking a request
Accepted(h) == seen' = seen + 1 /\ harrival'[h].at = seen'

\* C16: a signed label notification whose repository is not configured is
\* answered with status 400 in the step that takes it: no API call is made,
\* and no guard list changes (nothing is registered, consumed or purged).
C16_NonMemberFiltering ==
    /\ [][\A h \in Handlers :
            (/\ Accepted(h) /\ hreq'[h].sig_ok /\ hreq'[h].event = "label"
             /\ hreq'[h].repo \notin MemberSet) =>
                /\ hpc'[h] = "idle" /\ hresp'[h] = 400
                /\ hcalls'[h] = <<>> /\ ignores' = ignores]_vars
    /\ [](\A h \in Handlers :
            (hreq[h].event = "label" /\ hreq[h].repo \notin MemberSet) =>
                hpc[h] = "idle" /\ hcalls[h] = <<>>)

\* a signed label notification of a repository that is not configured has
\* been answered while a guard list held an expired record equal to its change
C16_Witness ==
    \E h \in Handlers :
        /\ hpc[h] = "idle" /\ hresp[h] = 400
        /\ hreq[h].sig_ok /\ hreq[h].event = "label"
        /\ hreq[h].repo \notin MemberSet
        /\ \E r \in MemberSet : \E i \in 1..Len(ignores[r].list) :
              /\ Eq(ignores[r].list[i], ChangeOf(hreq[h], now))
              /\ ~is_valid(ignores[r].list[i], now)

\* handler h answers in this step, with this status, without an API call
\* and without a change of the guard lists
AnsweredAtOnce(h, status) ==
    /\ hpc'[h] = "idle" /\ hresp'[h] = status
    /\ hcalls'[h] = <<>> /\ ignores' = ignores

\* C18: of the requests with a matching signature, a ping is answered with
\* the empty successful response, without an API call or a change of the
\* guard lists; an event of a kind other than ping and label is answered
\* with status 400, likewise without effect; a label notification of a
\* member is processed (suppressed or propagated) and answered with the
\* empty successful response.
C18_EventDispatch ==
    /\ [][\A h \in Handlers :
            (Accepted(h) /\ hreq'[h].sig_ok) =>
                /\ hreq'[h].event = "ping" => AnsweredAtOnce(h, 200)
                /\ hreq'[h].event \notin {"ping", "label"} => AnsweredAtOnce(h, 400)
                /\ (hreq'[h].event = "label" /\ hreq'[h].repo \in MemberSet) =>
                       hpc'[h] = "cleanup" /\ ignores' = ignores]_vars
    /\ [](\A h \in Handlers :
            /\ Processed(h) =>
                   hresp[h] = 200 /\ houtcome[h] \in {"suppressed", "propagated"}
            /\ hreq[h].event # "label" => hpc[h] = "idle" /\ hcalls[h] = <<>>)

\* a signed event of another kind has been answered with 400 while a guard
\* list held an expired record
C18_Witness ==
    \E h \in Handlers :
        /\ hpc[h] = "idle" /\ hresp[h] = 400
        /\ hreq[h].sig_ok /\ hreq[h].event = "push"
        /\ \E r \in MemberSet : \E i \in 1..Len(ignores[r].list) :
              ~is_valid(ignores[r].list[i], now)

(***************************************************************************)
(* Properties of the gate (SpecGate)                                       *)
(***************************************************************************)
\* C17 (as claimed): a request whose signature header does not match its
\* body is answered with status 401 in the step that takes it, whatever its
\* event kind and repository: no API call is made and no guard list changes
\* (no purge, no registration, no consumption).
C17_SignatureGate ==
    /\ [][\A h \in Handlers :
            (Accepted(h) /\ ~hreq'[h].sig_ok) =>
                /\ hpc'[h] = "idle" /\ hresp'[h] = 401
                /\ hcalls'[h] = <<>> /\ ignores' = ignores]_vars
    /\ [](\A h \in Handlers :
            ~hreq[h].sig_ok => hpc[h] = "idle" /\ hcalls[h] = <<>>)

(***************************************************************************)
(* Properties of the concurrent relay (SpecConc)                           *)
(***************************************************************************)
\* how many records of list equal c and are unexpired at clock value t
ValidMatches(list, c, t) ==
    Cardinality({i \in 1..Len(list) : Eq(list[i], c) /\ is_valid(list[i], t)})

\* this step is a handler consuming a record equal to c from the list of r
Consumes(r, c) ==
    \E h \in Handlers :
        /\ hpc[h] = "remove_del" /\ houtcome'[h] = "suppressed"
        /\ hreq[h].repo = r /\ Eq(hchange[h], c)

\* C13: no step of a handler loses an expected record: a record that is
\* registered for r and unexpired is still in the list of r after every step,
\* unless the step is the consumption of one such record by an equal
\* notification from r; in particular a purge never drops a record another
\* handler has registered.
C13_RegistrationVersusPurge ==
    [][\A r \in MemberSet :
         \A i \in 1..Len(ignores[r].list) :
            LET c == ignores[r].list[i]
            IN  is_valid(c, now') =>
                   ValidMatches(ignores'[r].list, c, now') >=
                       ValidMatches(ignores[r].list, c, now')
                           - (IF Consumes(r, c) THEN 1 ELSE 0)]_vars

\* handler h took its request while handler g was at work on the request g
\* has now
Overlap(g, h) ==
    /\ harrival[g].at < harrival[h].at
    /\ g \in harrival[h].busy

\* C14: when two equal label notifications of one member have been handled
\* concurrently, each arriving while the list of that member held exactly
\* one matching record, and both have got as far as the lookup, one of them
\* was suppressed and the other was propagated, and neither handler failed.
C14_LookupAndRemoval ==
    \A g, h \in Handlers :
        (/\ g # h /\ Processed(g) /\ Processed(h)
         /\ hreq[g] = hreq[h] /\ Overlap(g, h)
         /\ hchange[g] # NoChange /\ hchange[h] # NoChange
         /\ harrival[g].matches = 1 /\ harrival[h].matches = 1) =>
            \/ houtcome[g] = "suppressed" /\ houtcome[h] = "propagated"
            \/ houtcome[g] = "propagated" /\ houtcome[h] = "suppressed"

(***************************************************************************)
(* Properties of the client (SpecApi)                                      *)
(***************************************************************************)
\* the status codes as they are written
StatusText(code) ==
    CASE code = 200 -> "200" [] code = 201 -> "201" [] code = 204 -> "204"
      [] code = 401 -> "401" [] code = 404 -> "404" [] code = 422 -> "422"

\* the outcome is the GitHubError of this response
IsErrorOf(outcome, response) ==
    /\ outcome.raised
    /\ outcome.status_code = response.status_code
    /\ outcome.message = IF response.json.has THEN response.json.message
                         ELSE "No message provided"
    /\ outcome.text = "GitHub: ERROR " \o StatusText(response.status_code)
                          \o " - " \o outcome.message

\* the pages of the listing that are refused
RefusedPages == {i \in 1..Len(a_pages) : a_pages[i].status_code # 200}

\* the two calls that list
ListCalls == {"list_labels", "list_repositories"}

\* C19: create_label raises a GitHubError exactly when the status of the
\* response is not 201, update_label exactly when it is not 200, delete_label
\* exactly when it is not 204 and a listing exactly when the status of one
\* of its pages is not 200; the error carries the status code of the
\* response and the message of its body, or 'No message provided', and its
\* text is 'GitHub: ERROR <status> - <message>'.
C19_TypedFailure ==
    /\ a_op = "create" => a_outcome.raised = (a_response.status_code # 201)
    /\ a_op = "update" => a_outcome.raised = (a_response.status_code # 200)
    /\ a_op = "delete" => a_outcome.raised = (a_response.status_code # 204)
    /\ a_op \in ListCalls => a_outcome.raised = (RefusedPages # {})
    /\ a_outcome.raised => a_outcome.exception = "GitHubError"
    /\ (a_op \in {"create", "update", "delete"} /\ a_outcome.raised) =>
           IsErrorOf(a_outcome, a_response)
    /\ (a_op \in ListCalls /\ a_outcome.raised) =>
           \E i \in RefusedPages :
               /\ \A j \in RefusedPages : i <= j
               /\ IsErrorOf(a_outcome, a_pages[i])
    /\ (a_op # "none" /\ ~a_outcome.raised) =>
           [a_outcome EXCEPT !.value = <<>>] = Returned

\* a label was to be created and the response had the status of an update
\* and no message: the call raised the error '200 - No message provided'
C19_Witness ==
    /\ a_op = "create" /\ a_response.status_code = 200 /\ ~a_response.json.has
    /\ a_outcome.raised
    /\ a_outcome.text = "GitHub: ERROR 200 - No message provided"

(***************************************************************************)
(* Properties of the signature (SpecSig)                                   *)
(***************************************************************************)
\* the request is the test case it was made from, nothing altered
Unaltered ==
    /\ s_data = TestVectors[s_vector].data
    /\ s_secret = TestVectors[s_vector].secret

\* the request differs from its test case in one byte of the body, or in one
\* character of the secret
OneAltered ==
    \/ /\ s_secret = TestVectors[s_vector].secret
       /\ Len(s_data) = Len(TestVectors[s_vector].data)
       /\ Cardinality({i \in 1..Len(s_data) :
                          s_data[i] # TestVectors[s_vector].data[i]}) = 1
    \/ /\ s_data = TestVectors[s_vector].data
       /\ Len(s_secret) = Len(TestVectors[s_vector].secret)
       /\ Cardinality({i \in 1..Len(s_secret) :
                          s_secret[i] # TestVectors[s_vector].secret[i]}) = 1

\* C20: webhook_verify_signature returns true exactly when the signature is
\* 'sha1=' followed by the hexadecimal HMAC-SHA1 of the raw body keyed by the
\* secret: for the bodies and secrets of the test it returns true for
\* the precomputed reference value and false for every other signature
\* (another reference value, none, the digest without the prefix, the
\* digest with one digit altered), and with one byte of the body or one
\* character of the secret altered it returns false for the reference value.
\* This holds for the call with the encoding of the test case and for the
\* call with three arguments that hook_accept makes, which lets the request
\* pass exactly when the function returns true. It returns for every secret
\* encoded in utf-8 (the default); it raises only for a secret that the
\* encoding asked for has no bytes for.
C20_SignatureVerification ==
    /\ s_pc \in {"passed", "aborted"} => (s_result = (s_pc = "passed"))
    /\ s_pc # "error"
    /\ s_pc \in {"verified", "passed", "aborted"} =>
           /\ Unaltered => (s_result = (s_signature = TestVectors[s_vector].signature))
           /\ ~Unaltered =>
                  /\ OneAltered
                  /\ s_signature = TestVectors[s_vector].signature
                  /\ ~s_result
    /\ s_pc = "raised" =>
           /\ s_encoding # "utf-8"
           /\ \E i \in 1..Len(s_secret) :
                  EncodeChar(s_secret[i], s_encoding) = UnicodeEncodeError

\* the body in cp1250 of the test was verified against its reference value,
\* and the signature was accepted
C20_Witness ==
    /\ s_pc = "verified" /\ s_result /\ Unaltered
    /\ s_encoding = "cp1250" /\ Len(s_data) = 26
    /\ s_signature = "sha1=993fc6ccf9fa1cfd650825d886d5343549448e52"

(***************************************************************************)
(* Properties of the relay's steps (Spec)                                  *)
(***************************************************************************)
\* the records of list that equal c
EqualIn(list, c) == {i \in 1..Len(list) : Eq(list[i], c)}

\* list without its element k
Without(list, k) ==
    [i \in 1..(Len(list) - 1) |-> IF i < k THEN list[i] ELSE list[i + 1]]

\* list p is the beginning of list q
IsPrefix(p, q) == Len(p) <= Len(q) /\ \A i \in 1..Len(p) : p[i] = q[i]

\* handler h is relaying a notification that was not suppressed
Relaying(h) == hpc[h] \in {"relay", "ensure", "append_load", "append", "call"}

\* this step is a step of handler h
Moves(h) == hpc'[h] # hpc[h] \/ hi'[h] # hi[h] \/ hj'[h] # hj[h]

\* handler h is looking its change up in the list of the origin, or is
\* searching that list for the record to remove
Searching(h) == hpc[h] \in {"lookup", "lookup_iter", "remove", "remove_iter"}

\* C21: when the list of the origin, after the purge, holds a record equal
\* to the notification's change, exactly one such record is removed from
\* that list, the lists of the other repositories stay as they are, nothing
\* is registered and no API call is made; when it holds none, nothing is
\* removed from any list.
C21_SuppressionStep ==
    /\ [][\A h \in Handlers :
            LET r == hreq[h].repo
            IN  /\ Searching(h) =>
                       /\ ignores' = ignores /\ hcalls'[h] = <<>>
                       /\ houtcome'[h] = "none"
                /\ (hpc[h] \in {"lookup", "lookup_iter"}
                        /\ hpc'[h] \in {"remove", "relay"}) =>
                       hpc'[h] = "remove" <=>
                           (ignores[r].has /\ EqualIn(ignores[r].list, hchange[h]) # {})
                /\ (hpc[h] = "remove_del" /\ Moves(h)) =>
                       /\ houtcome'[h] = "suppressed" /\ hcalls'[h] = <<>>
                       /\ \E k \in EqualIn(ignores[r].list, hchange[h]) :
                              ignores'[r].list = Without(ignores[r].list, k)
                       /\ \A o \in MemberSet \ {r} : ignores'[o] = ignores[o]
                /\ Relaying(h) =>
                       /\ houtcome'[h] # "suppressed"
                       /\ \A o \in MemberSet :
                              IsPrefix(ignores[o].list, ignores'[o].list)]_vars
    /\ [](\A h \in Handlers :
            (Processed(h) /\ houtcome[h] = "suppressed") => hcalls[h] = <<>>)

\* a notification was suppressed whose origin held two equal valid records:
\* one of them is still there
C21_Witness ==
    \E h \in Handlers :
        /\ Processed(h) /\ houtcome[h] = "suppressed"
        /\ harrival[h].matches = 2
        /\ Cardinality(EqualIn(ignores[hreq[h].repo].list, hchange[h])) = 1

\* the repositories handler h has called so far
CalledBy(h) == {hcalls[h][i].repo : i \in 1..Len(hcalls[h])}

\* the last record of the list of repository r is c
EndsWith(r, c) ==
    /\ ignores[r].has /\ ignores[r].list # <<>>
    /\ ignores[r].list[Len(ignores[r].list)] = c

\* C22: when a notification of member o is propagated, for every member r
\* other than o the change is appended to the list of r before the API call
\* on r is made; one record is registered and one call is made for each such
\* r, and nothing is registered for o and no call is made on o.
C22_RegisterBeforeWrite ==
    /\ [][\A h \in Handlers :
            LET r == Members[hi[h]]
            IN  /\ (Relaying(h) /\ \E o \in MemberSet :
                                      ignores'[o].list # ignores[o].list) =>
                       /\ hpc[h] = "append" /\ hpc'[h] = "call"
                       /\ r # hreq[h].repo /\ r \notin CalledBy(h)
                       /\ ignores'[r].list = Append(ignores[r].list, hchange[h])
                       /\ \A o \in MemberSet \ {r} : ignores'[o] = ignores[o]
                       /\ hcalls'[h] = hcalls[h]
                /\ hcalls'[h] # hcalls[h] /\ hcalls'[h] # <<>> =>
                       /\ hpc[h] = "call"
                       /\ r # hreq[h].repo /\ r \notin CalledBy(h)
                       /\ EndsWith(r, hchange[h])
                       /\ ignores' = ignores
                       /\ \E ok \in BOOLEAN :
                              hcalls'[h] = Append(hcalls[h],
                                                  RelayCall(hreq[h], r, ok))]_vars
    /\ [](\A h \in Handlers :
            (Processed(h) /\ houtcome[h] = "propagated") =>
                /\ OneCallOnEachOther(h)
                /\ RegisteredForOthers(h)
                /\ hreq[h].repo \notin CalledBy(h))

\* the change is registered for the second peer, which held a record already,
\* and the call on that peer has not been made yet
C22_Witness ==
    \E h \in Handlers :
        /\ hpc[h] = "call" /\ Len(hcalls[h]) = 1
        /\ EndsWith(Members[hi[h]], hchange[h])
        /\ Len(ignores[Members[hi[h]]].list) = 2
        /\ Members[hi[h]] \notin CalledBy(h)

(***************************************************************************)
(* Properties of the change records (SpecEdit)                             *)
(***************************************************************************)
\* the notification is an edit that changed the name of the label
IsRename(q) == q.action = "edited" /\ q.from # None

\* C23 (as claimed): the record built from a notification carries, in the
\* fields its equality compares (action, name, color, previous name), the
\* action, the name of the label after the change, the color, absent when
\* the action is deleted, and the name before the change exactly when the
\* notification is an edit that changed the name, nothing otherwise.
C23_ChangeRecord ==
    \A h \in Handlers :
        hchange[h] # NoChange =>
            Tuple(hchange[h]) =
                <<hreq[h].action,
                  hreq[h].name,
                  IF hreq[h].action = "deleted" THEN None ELSE hreq[h].color,
                  IF IsRename(hreq[h]) THEN hreq[h].from ELSE None>>

\* what the notification a record was built from says: action, name after
\* the change, color, name before the change (None unless renamed)
Described(c) ==
    IF c.new_name # None THEN <<c.action, c.new_name, c.color, c.name>>
    ELSE <<c.action, c.name, c.color, None>>

\* C24 (as claimed): a notification is suppressed only by a record that was
\* registered for a change with the same action, the same name after the
\* change, the same color and the same name before the change; a record for
\* a rename of x to y does not suppress a color-only edit of x, nor a rename
\* of x to z.
C24_StructuralMatching ==
    [][\A h \in Handlers :
         (hpc[h] = "remove_del" /\ houtcome'[h] = "suppressed") =>
             \E k \in 1..Len(ignores[hreq[h].repo].list) :
                 /\ ignores'[hreq[h].repo].list =
                        Without(ignores[hreq[h].repo].list, k)
                 /\ Described(ignores[hreq[h].repo].list[k]) = Described(hchange[h])]_vars

(***************************************************************************)
(* Properties of the diff, continued (SpecDiff)                            *)
(***************************************************************************)
\* plan dict d holds under key k the value (n, c), once
Holds(d, k, n, c) ==
    /\ Cardinality({j \in 1..Len(d) : d[j].key = k}) = 1
    /\ Get(d, k).name = n /\ Get(d, k).color = c

\* no entry of plan dict d has the value (n, c)
NoValue(d, n, c) == WithValue(d, n, c) = {}

\* the name the case-insensitive index of the current labels gives for n
OriginalOf(n) == Get(make_labels_dict(d_labels), Lower(n)).name

\* the desired entry i is classified as described
Classified(i) ==
    LET n == d_specs[i].name
        c == d_specs[i].color
    IN  IF ~HasKey(make_labels_dict(d_labels), Lower(n))
        THEN Holds(d_plan.create, n, n, c) /\ NoValue(d_plan.update, n, c)
        ELSE IF OriginalOf(n) # n
        THEN Holds(d_plan.update, OriginalOf(n), n, c) /\ NoValue(d_plan.create, n, c)
        ELSE IF ColorOf(d_labels, n) # c
        THEN Holds(d_plan.update, n, n, c) /\ NoValue(d_plan.create, n, c)
        ELSE NoValue(d_plan.create, n, c) /\ NoValue(d_plan.update, n, c)

\* the scenario: current {bug: ee0701}, desired {bug: ee0701, feature: 00ff00}
Scenario ==
    /\ d_labels = <<[name |-> "bug", color |-> "ee0701"]>>
    /\ d_specs = <<[name |-> "bug", color |-> "ee0701"],
                   [name |-> "feature", color |-> "00ff00"]>>
    /\ d_mode = "update"

ScenarioPlan ==
    [create |-> <<[key |-> "feature", name |-> "feature", color |-> "00ff00"]>>,
     update |-> <<>>, delete |-> <<>>]

\* C25 (as claimed): for every current label set and every desired
\* specification each desired (name, color) is classified by the
\* case-insensitive index of the current set: no match gives
\* toCreate[name] = (name, color), a match whose original name differs gives
\* toUpdate[original name] = (name, color), a match of the same name with
\* another color gives toUpdate[name] = (name, color), the same name and
\* color give no entry; and the scenario gives the plan that creates feature
\* and does nothing else.
C25_ClassificationAnySets ==
    d_mode # "none" =>
        /\ \A i \in 1..Len(d_specs) : Classified(i)
        /\ Scenario => d_plan = ScenarioPlan

\* C25 (amended): the same, for current label sets and desired
\* specifications whose names are pairwise distinct ignoring letter case.
C25_Classification ==
    (d_mode # "none" /\ CiUnique(d_labels) /\ CiUnique(d_specs)) =>
        /\ \A i \in 1..Len(d_specs) : Classified(i)
        /\ Scenario => d_plan = ScenarioPlan

\* the plan of the scenario was computed
C25_Witness == Scenario /\ d_plan = ScenarioPlan

(***************************************************************************)
(* Properties of the reconciliation run, continued (SpecRun)               *)
(***************************************************************************)
\* the (name, color) pairs of a label dict
Pairs(d) == {<<d[i].name, d[i].color>> : i \in 1..Len(d)}

\* a real run is over and every call it made succeeded
RunSucceeded == pc = "done" /\ ~dry_run /\ \A i \in 1..Len(calls) : calls[i].ok

\* C26 (as claimed): when every remote call succeeds, after a run with the
\* replace policy the labels of every target repository are the desired
\* specification exactly: the same names in the same letter case with the
\* same colors, no label more and no label less, whatever the labels were
\* before.
C26_ReplaceConvergence ==
    (RunSucceeded /\ mode = "replace") =>
        \A i \in 1..Len(slugs) :
            /\ Pairs(remote[slugs[i]]) = Pairs(labels_specs)
            /\ Len(remote[slugs[i]]) = Len(labels_specs)


\* a label that no desired name matches ignoring letter case
Unmatched(l) == \A j \in 1..Len(labels_specs) : Lower(labels_specs[j].name) # Lower(l.name)

\* the call is a create or an update naming the label, as its old or its new
\* name, ignoring letter case
Targets(c, l) ==
    /\ c.kind \in {"create", "update"}
    /\ Lower(l.name) \in {Lower(c.key), Lower(c.name)}

\* C27: a run with the update policy issues no delete call and no create or
\* update call that targets a label of the repository having no
\* case-insensitive match in the desired specification, and every step of
\* the run leaves every such label in the repository with its name and color.
C27_UpdateFrame ==
    /\ [][(mode = "update" /\ pc # "idle") =>
            \A r \in RunRepos : \A i \in 1..Len(remote[r]) :
                Unmatched(remote[r][i]) =>
                    \E j \in 1..Len(remote'[r]) : remote'[r][j] = remote[r][i]]_vars
    /\ []((mode = "update" /\ pc # "idle") =>
            \A i \in 1..Len(calls) :
                /\ calls[i].kind # "delete"
                /\ \A k \in 1..Len(remote[calls[i].repo]) :
                       Unmatched(remote[calls[i].repo][k]) =>
                           ~Targets(calls[i], remote[calls[i].repo][k]))

\* an update run has renamed or recolored a label of a repository that also
\* holds a label matching no desired name
C27_Witness ==
    /\ pc = "done" /\ mode = "update" /\ ~dry_run
    /\ \E i \in 1..Len(calls) :
           /\ calls[i].kind = "update" /\ calls[i].ok
           /\ \E k \in 1..Len(remote[calls[i].repo]) :
                  Unmatched(remote[calls[i].repo][k])


Distinct(s) == \A i, j \in 1..Len(s) : s[i] = s[j] => i = j

\* list_labels returned for the i-th repository of the list
Listed(cs, i) == \E k \in 1..Len(cs) : cs[k].kind = "list" /\ cs[k].at = i /\ cs[k].ok

\* (event, name, color) of the operations of a plan, in the order of processing
PlanTriples(p) ==
    [k \in 1..Len(PlanOps(p)) |->
        <<EventOf(PlanOps(p)[k].kind), PlanOps(p)[k].name, PlanOps(p)[k].color>>]

\* (event, name, color) of the 'would' events about the i-th repository
WouldTriples(es, i) ==
    LET s == SelectSeq(es, LAMBDA e : e.at = i /\ e.result = "DRY")
    IN  [k \in 1..Len(s) |-> <<s[k].event, s[k].name, s[k].color>>]

\* (event, name, color) of the operations attempted on the i-th repository
AttemptTriples(cs, i) ==
    LET s == SelectSeq(cs, LAMBDA c : c.at = i /\ c.kind # "list")
    IN  [k \in 1..Len(s) |-> <<EventOf(s[k].kind), s[k].name, s[k].color>>]

\* C28: a dry run emits, for every repository whose labels it could list,
\* one 'would' event per entry of the plan computed from these labels, in the
\* plan's order; and when the same command is then run for real on a list of
\* distinct repositories, the operations the real run attempts on a
\* repository (succeeding or not) are those of the dry run's 'would' events
\* for it, as sequences of (operation kind, label name, color).
C28_DryRunSamePlans ==
    /\ (pc = "done" /\ dry_run) =>
           \A i \in 1..Len(slugs) :
               Listed(calls, i) =>
                   WouldTriples(events, i) =
                       PlanTriples(MODES(mode, remote[slugs[i]], labels_specs))
    /\ (pc = "done" /\ run = "real" /\ Distinct(slugs)) =>
           \A i \in 1..Len(slugs) :
               (Listed(first_calls, i) /\ Listed(calls, i)) =>
                   AttemptTriples(calls, i) = WouldTriples(first_events, i)

\* the real run after a dry run on two distinct repositories is over; on one
\* of them it attempted the two or more operations that the dry run
\* announced, and one of them failed
C28_Witness ==
    /\ pc = "done" /\ run = "real" /\ Distinct(slugs) /\ Len(slugs) = 2
    /\ \E i \in 1..Len(slugs) :
           /\ Listed(first_calls, i) /\ Listed(calls, i)
           /\ Len(WouldTriples(first_events, i)) >= 2
           /\ \E k \in 1..Len(calls) :
                  calls[k].at = i /\ calls[k].kind # "list" /\ ~calls[k].ok


(***************************************************************************)
(* Properties of the relay's maintenance pass and window (Spec)            *)
(***************************************************************************)
\* the records of the list whose real age at clock value t is below 10 seconds
Young(list, t) == SelectSeq(list, LAMBDA c : Age(c, t) < WindowTicks)

\* no list holds a record whose real age is 10 seconds or more
NoneExpired ==
    \A r \in MemberSet : \A i \in 1..Len(ignores[r].list) :
        Age(ignores[r].list[i], now) < WindowTicks

\* the maintenance pass of handler h is over, the membership filter and the
\* lookup are still to come
Cleaned(h) == hpc[h] = "build"

\* no time has passed since the request of handler h arrived: every reading
\* of the clock during its processing has given the same value
AtOnce(h) == now = harrival[h].clock

\* C29 (as claimed): the maintenance pass that begins the processing of a
\* label notification replaces every list it visits by the records of that
\* list younger than 10 seconds, in their order, and leaves the other lists
\* alone; when it is over, before the membership filter, and at the step
\* that ends the processing of the notification, no list holds a record of
\* age 10 seconds or more.
C29_MaintenancePass ==
    /\ [][\A h \in Handlers :
            (hpc[h] = "cleanup_store" /\ hpc'[h] = "cleanup") =>
                /\ AtOnce(h) =>
                       ignores'[keys[hi[h]]].list =
                           Young(ignores[keys[hi[h]]].list, now)
                /\ \A r \in MemberSet \ {keys[hi[h]]} : ignores'[r] = ignores[r]]_vars
    /\ [][\A h \in Handlers :
            (hpc[h] # "idle" /\ Processed(h)' /\ AtOnce(h)') => NoneExpired']_vars
    /\ [](\A h \in Handlers : (Cleaned(h) /\ AtOnce(h)) => NoneExpired)

\* C30 (as claimed): a record is treated as expired by the maintenance pass
\* exactly when its real age is 10 seconds or more: the records the pass
\* keeps of a list are those whose age is below 10 seconds, whatever the
\* fractions of a second of the creation time and of the time of the pass.
C30_WindowLength ==
    \A h \in Handlers :
        (hpc[h] = "cleanup_store" /\ AtOnce(h)) =>
            hsnap[h] = Young(ignores[keys[hi[h]]].list, now)


\* the program is used either for a reconciliation run or as the relay
\* (the commands run and run_server are separate processes sharing no state)
CoreNext ==
    \/ seen = 0 /\ RunStart
       /\ UNCHANGED <<diffvars, relayvars, apivars, sigvars>>
    \/ RunAgain /\ UNCHANGED <<diffvars, relayvars, apivars, sigvars>>
    \/ RunForReal /\ UNCHANGED <<diffvars, relayvars, apivars, sigvars>>
    \/ RunOneFetched /\ UNCHANGED <<diffvars, relayvars, apivars, sigvars>>
    \/ RunOneFetchFailed /\ UNCHANGED <<diffvars, relayvars, apivars, sigvars>>
    \/ ProcessOk /\ UNCHANGED <<diffvars, relayvars, apivars, sigvars>>
    \/ ProcessErr /\ UNCHANGED <<diffvars, relayvars, apivars, sigvars>>
    \/ ProcessDry /\ UNCHANGED <<diffvars, relayvars, apivars, sigvars>>
    \/ RunReturn /\ UNCHANGED <<diffvars, relayvars, apivars, sigvars>>
    \/ \E h \in Serial, q \in EditRequests :
           run = "none" /\ HookAccept(h, q)
           /\ UNCHANGED <<diffvars, runvars, apivars, sigvars>>
    \/ \E h \in Serial : CleanupNext(h) /\ UNCHANGED <<diffvars, runvars, apivars, sigvars>>
    \/ \E h \in Serial : CleanupLoad(h) /\ UNCHANGED <<diffvars, runvars, apivars, sigvars>>
    \/ \E h \in Serial : CleanupRead(h) /\ UNCHANGED <<diffvars, runvars, apivars, sigvars>>
    \/ \E h \in Serial : CleanupStore(h) /\ UNCHANGED <<diffvars, runvars, apivars, sigvars>>
    \/ \E h \in Serial : Build(h) /\ UNCHANGED <<diffvars, runvars, apivars, sigvars>>
    \/ \E h \in Serial : Lookup(h) /\ UNCHANGED <<diffvars, runvars, apivars, sigvars>>
    \/ \E h \in Serial : LookupRead(h) /\ UNCHANGED <<diffvars, runvars, apivars, sigvars>>
    \/ \E h \in Serial : RemoveLoad(h) /\ UNCHANGED <<diffvars, runvars, apivars, sigvars>>
    \/ \E h \in Serial : RemoveRead(h) /\ UNCHANGED <<diffvars, runvars, apivars, sigvars>>
    \/ \E h \in Serial : RemoveEcho(h) /\ UNCHANGED <<diffvars, runvars, apivars, sigvars>>
    \/ \E h \in Serial : RelayNext(h) /\ UNCHANGED <<diffvars, runvars, apivars, sigvars>>
    \/ \E h \in Serial : EnsureTest(h) /\ UNCHANGED <<diffvars, runvars, apivars, sigvars>>
    \/ \E h \in Serial : EnsureSet(h) /\ UNCHANGED <<diffvars, runvars, apivars, sigvars>>
    \/ \E h \in Serial : RegisterLoad(h) /\ UNCHANGED <<diffvars, runvars, apivars, sigvars>>
    \/ \E h \in Serial : Register(h) /\ UNCHANGED <<diffvars, runvars, apivars, sigvars>>
    \/ \E h \in Serial, ok \in BOOLEAN :
           Call(h, ok) /\ UNCHANGED <<diffvars, runvars, apivars, sigvars>>

CoreInit == RunInit /\ RelayInit /\ DiffIdle /\ ApiIdle /\ SigIdle

\* the reconciliation run and the relay, one of them at work; the relay
\* receives the notifications of SpecEdit
SpecCore == CoreInit /\ [][CoreNext]_vars

\* a step of handler h after the arrival of its request
HandlerStep(h) ==
    /\ \/ CleanupNext(h) \/ CleanupLoad(h) \/ CleanupRead(h) \/ CleanupStore(h) \/ Build(h)
       \/ Lookup(h) \/ LookupRead(h) \/ RemoveLoad(h) \/ RemoveRead(h) \/ RemoveEcho(h)
       \/ RelayNext(h) \/ EnsureTest(h) \/ EnsureSet(h) \/ RegisterLoad(h) \/ Register(h)
       \/ \E ok \in BOOLEAN : Call(h, ok)
    /\ UNCHANGED <<diffvars, runvars, apivars, sigvars>>

ConcFairInit == RelayInit /\ DiffIdle /\ RunIdle /\ ApiIdle /\ SigIdle

\* the concurrent relay whose handler threads are scheduled fairly and whose
\* API calls return or fail: a handler that can take a step takes it
SpecConcFair ==
    /\ ConcFairInit /\ [][ConcNext]_vars
    /\ \A h \in Handlers : WF_vars(HandlerStep(h))

(***************************************************************************)
(* Properties of the relay's calls and outcomes                            *)
(***************************************************************************)
\* the operation and the arguments of a call, without its result
CallArgs(c) == <<c.op, c.repo, c.name, c.color, c.old_name>>

\* C31: every call that the propagation of a notification makes on a peer r
\* is create_label(r, name, color) when the action is created,
\* delete_label(r, name) when it is deleted, and update_label(r, name, color,
\* lookup name) when it is edited, the lookup name being the previous name
\* when the edit changed the name and the label's own name otherwise.
C31_ActionMapping ==
    \A h \in Handlers : \A i \in 1..Len(hcalls[h]) :
        LET c == hcalls[h][i]
            q == hreq[h]
        IN  /\ c.repo \in MemberSet \ {q.repo}
            /\ q.action = "created" =>
                   CallArgs(c) = <<"create", c.repo, q.name, q.color, None>>
            /\ q.action = "deleted" =>
                   CallArgs(c) = <<"delete", c.repo, q.name, None, None>>
            /\ (q.action = "edited" /\ IsRename(q)) =>
                   CallArgs(c) = <<"update", c.repo, q.name, q.color, q.from>>
            /\ (q.action = "edited" /\ ~IsRename(q)) =>
                   CallArgs(c) = <<"update", c.repo, q.name, q.color, q.name>>

\* a rename of x has been propagated: both peers were called with the
\* previous name as the lookup name
C31_Witness ==
    \E h \in Handlers :
        /\ Processed(h) /\ houtcome[h] = "propagated" /\ IsRename(hreq[h])
        /\ Len(hcalls[h]) = 2
        /\ \A i \in 1..2 : hcalls[h][i].old_name = hreq[h].from
                           /\ hcalls[h][i].old_name # hcalls[h][i].name


\* the number of the elements of sequence s that satisfy Test
Count(s, Test(_)) == Len(SelectSeq(s, Test))

\* C32: in a reconciliation run the labels of the repository at each
\* position of the list are fetched at most once and each planned operation
\* is called at most once, and while the relay processes a notification
\* each peer gets at most one API call, whether or not calls fail.
C32_NoRetry ==
    /\ \A i \in 1..Len(slugs) :
           Count(calls, LAMBDA c : c.kind = "list" /\ c.at = i) <= 1
    /\ \A k \in 1..Len(planned) :
           Count(calls, LAMBDA c : /\ c.kind = planned[k].op.kind
                                   /\ c.at = planned[k].at
                                   /\ c.key = planned[k].op.key
                                   /\ c.name = planned[k].op.name
                                   /\ c.color = planned[k].op.color) <= 1
    /\ \A i \in 1..Len(calls) :
           calls[i].kind # "list" =>
               \E k \in 1..Len(planned) :
                   /\ calls[i].kind = planned[k].op.kind
                   /\ calls[i].at = planned[k].at
                   /\ calls[i].key = planned[k].op.key
    /\ \A h \in Handlers : \A i, j \in 1..Len(hcalls[h]) :
           hcalls[h][i].repo = hcalls[h][j].repo => i = j

\* a real run is over in which an operation failed and was not called again:
\* the calls are as many as the planned operations, two or more
C32_Witness ==
    /\ pc = "done" /\ ~dry_run
    /\ Len(planned) >= 2 /\ Len(OpCalls) = Len(planned)
    /\ \E i \in 1..Len(calls) : calls[i].kind # "list" /\ ~calls[i].ok


\* handler h holds a label notification of a request that passed the
\* signature check
SignedLabel(h) == hreq[h].sig_ok /\ hreq[h].event = "label"

\* handler h has found a record equal to its change and is removing it
Removing(h) == hpc[h] \in {"remove", "remove_iter", "remove_del"}

\* C33 (as claimed): the handling of every label notification that passed
\* the signature check comes to its end, and it ends with one of the
\* outcomes filtered out (its repository is no member), suppressed or
\* propagated; a handler that removes the expected record makes no call and
\* registers nothing, and a handler that has begun to propagate never
\* removes a record.
C33_NotificationStates ==
    /\ \A h \in Handlers : (hpc[h] # "idle") ~> (hpc[h] = "idle")
    /\ [](\A h \in Handlers :
            (SignedLabel(h) /\ hpc[h] = "idle") =>
                /\ houtcome[h] \in {"rejected", "filtered", "suppressed", "propagated"}
                /\ houtcome[h] \in {"rejected", "filtered"} <=>
                       hreq[h].repo \notin MemberSet
                /\ houtcome[h] # "propagated" => hcalls[h] = <<>>)
    /\ [](\A h \in Handlers : Removing(h) => hcalls[h] = <<>>)
    /\ [][\A h \in Handlers :
            /\ Relaying(h) => (Relaying(h)' \/ hpc'[h] = "idle")
            /\ Removing(h) => (Removing(h)' \/ hpc'[h] = "idle")]_vars


\* list without its elements at the indices in D
Dropping(list, D) ==
    LET kept == SelectSeq([i \in 1..Len(list) |-> i], LAMBDA i : i \notin D)
    IN  [j \in 1..Len(kept) |-> list[kept[j]]]

\* the step stores the purged list of a repository, which is the list
\* without some records that are all expired as the code counts, or removes
\* from the list of the notification's repository one record equal to its
\* change
PurgeOrConsume(h, r) ==
    \/ /\ hpc[h] = "cleanup_store" /\ r = keys[hi[h]]
       /\ \E D \in SUBSET (1..Len(ignores[r].list)) :
              /\ ignores'[r].list = Dropping(ignores[r].list, D)
              /\ \A i \in D : ~is_valid(ignores[r].list[i], now)
    \/ /\ hpc[h] = "remove_del" /\ r = hreq[h].repo
       /\ \E k \in EqualIn(ignores[r].list, hchange[h]) :
              ignores'[r].list = Without(ignores[r].list, k)

\* C34 (as claimed): a failed API call on peer r leaves the record registered
\* for r in r's list; a list loses records only by the expiry purge or by a
\* structurally equal notification of its repository consuming one; and so a
\* notification of r that equals the record and arrives less than 10 seconds
\* after a propagation whose call on r failed finds the record and is
\* suppressed.
C34_NoRollback ==
    /\ [][\A h \in Handlers :
            /\ (hpc[h] = "call" /\ Len(hcalls'[h]) = Len(hcalls[h]) + 1) =>
                   /\ ignores' = ignores
                   /\ EndsWith(Members[hi[h]], hchange[h])
            /\ \A r \in MemberSet :
                   (hpc[h] # "idle" /\ ~IsPrefix(ignores[r].list, ignores'[r].list)) =>
                       PurgeOrConsume(h, r)
            /\ (hpc'[h] = "cleanup" /\ AfterFailedCall(h, hreq'[h])) =>
                   /\ Contains(ignores[hreq'[h].repo].list, hchange[h])
                   /\ harrival'[h].after_failure]_vars
    /\ [](\A h \in Handlers :
            (Processed(h) /\ harrival[h].after_failure /\ WithinWindow(h)) =>
                houtcome[h] = "suppressed" /\ hcalls[h] = <<>>)


(***************************************************************************)
(* Properties of the run's counters and status (SpecRun)                   *)
(***************************************************************************)
\* the failed calls of the run: fetches and label operations
FailedCalls == SelectSeq(calls, LAMBDA c : ~c.ok)

\* C35: when a run is over the printer's error count is the number of the
\* failed label fetches plus the number of the failed label operations, and
\* its count of repositories is the number of the distinct repositories of
\* the input list, those whose fetch failed included; during a run the error
\* count never decreases.
C35_RunCounters ==
    /\ [](pc = "done" =>
            /\ printer_errors = Len(FailedCalls)
            /\ Cardinality(printer_repos) =
                   Cardinality({slugs[i] : i \in 1..Len(slugs)}))
    /\ [][run' = run => printer_errors' >= printer_errors]_vars

\* a run over two repositories is over: the fetch of one failed, an operation
\* on the other failed, two errors and two repositories are counted
C35_Witness ==
    /\ pc = "done" /\ Len(slugs) = 2 /\ slugs[1] # slugs[2]
    /\ \E i, j \in 1..Len(calls) :
           /\ calls[i].kind = "list" /\ ~calls[i].ok
           /\ calls[j].kind # "list" /\ ~calls[j].ok
    /\ printer_errors = 2 /\ Cardinality(printer_repos) = 2


\* C36: a dry run returns the error status exactly when the label fetch of
\* at least one repository failed; it calls no label operation, every plan
\* entry gives a 'would' event, and the only error events are those of
\* failed fetches.
C36_DryRunStatus ==
    /\ (pc = "done" /\ dry_run) =>
           (ret = DEFAULT_ERROR_RETURN <=>
                \E i \in 1..Len(calls) : calls[i].kind = "list" /\ ~calls[i].ok)
    /\ (pc = "done" /\ dry_run) => ret \in {DEFAULT_ERROR_RETURN, DEFAULT_SUCCESS_RETURN}
    /\ dry_run =>
           /\ OpCalls = <<>>
           /\ \A i \in 1..Len(events) :
                  IF events[i].event = "LBL" THEN events[i].result = "ERR"
                  ELSE events[i].result = "DRY"
           /\ printer_errors = Len(FailedCalls)

\* a dry run over two repositories is over with the error status: the fetch
\* of one failed, which is the only error, and the plan of the other gave
\* two or more 'would' events
C36_Witness ==
    /\ pc = "done" /\ dry_run /\ ret = DEFAULT_ERROR_RETURN
    /\ Len(slugs) = 2 /\ printer_errors = 1
    /\ \E i \in 1..Len(calls) : calls[i].kind = "list" /\ ~calls[i].ok
    /\ Len(OpEvents) >= 2 /\ Len(OpEvents) = Len(planned)

====
